---- MODULE Spec2Model ----
(***************************************************************************)
(* Model of the policy-analysis orchestrator (analyze_all.py) and of the   *)
(* report classification of the web UI (webapp.py).                        *)
(*                                                                         *)
(* Part I   the orchestrator run: main() of analyze_all.py as a state      *)
(*          machine, with the analyzer subprocess and the thread pool of   *)
(*          concurrent.futures as its environment.                         *)
(* Part II  the verdict detection of parse_analysis_file() over report    *)
(*          texts written as sequences of lexical tokens.                  *)
(* Part III the views of the web UI: get_all_analyses(), group_by_agent()  *)
(*          and the routes dashboard(), matrix() and agent_detail().       *)
(***************************************************************************)
EXTENDS Integers, Sequences, FiniteSets, TLC

(***************************************************************************)
(* Bounds of the model.                                                    *)
(***************************************************************************)
\* the largest number of agent definition files in the agent output directory
MaxAgents == 3
\* the largest value given to --parallel
MaxParallel == 2

VARIABLES
    pc,             \* position of main() ("classify" in Part II)
    exitStatus,     \* process exit status, NoExit while main() runs
    args,           \* the parsed command line (argparse namespace)
    agentFiles,     \* the *.json files of AGENT_OUTPUT_DIR, numbered 1..n
    badFiles,       \* the files json.load() fails on
    logNames,       \* the files whose agent name find_log_file() matches
    outputDirExists,\* whether args.output_dir exists on disk
    files,          \* the report files of args.output_dir: name -> content
    agents,         \* main()'s list `agents`
    parallel,       \* main()'s local `parallel`
    results,        \* main()'s list `results`
    fut,            \* per sequence index: state of the invocation / future
    ret,            \* per sequence index: value analyze_agent returned
    queue,          \* the executor's work queue (sequence indexes, FIFO)
    nthreads,       \* worker threads the executor has spawned
    completed,      \* main()'s local `completed`
    progress,       \* the progress lines printed so far
    invoked,        \* per sequence index: how often the analyzer was launched
    env,            \* per sequence index: what the analyzer process did
    saveIdx,        \* position of the save/print loop in `results`
    warnings,       \* indexes warned about on stderr
    summary,        \* the printed SUMMARY block
    docs,           \* the *.txt artifacts of RESULTS_DIR, in sorted order
    parsed,         \* what get_all_analyses() returned, <<>> before the call
    jobs,           \* the results runs with --output-dir have to save
    written,        \* how many of them the save loop has written
    tokens,         \* a name and what sanitize_for_filename() made of it
    lookup,         \* an agent name and the *.csv files of LOG_OUTPUT_DIR
    found,          \* what find_log_file() returned, NotSearched before
    response        \* what the last request to the web UI was answered with

ovars == <<pc, exitStatus, args, agentFiles, badFiles, logNames,
           outputDirExists, files, agents, parallel, results, fut, ret,
           queue, nthreads, completed, progress, invoked, env, saveIdx,
           warnings, summary>>

\* the state of the report directory, of the web UI side and of the name
\* matching
wvars == <<docs, parsed, jobs, written, tokens, lookup, found, response>>

vars == <<ovars, wvars>>

(***************************************************************************)
(* Part I: values                                                          *)
(***************************************************************************)
NoExit == -1
NoLog == 0
NoResult == [idx |-> 0]
NoSummary == [printed |-> FALSE]
NoFilter == {}
\* an id given to --agent that no discovered agent carries
GhostAgent == 99

Range(s) == {s[i] : i \in DOMAIN s}

Max(a, b) == IF a > b THEN a ELSE b

\* What one launch of the analyzer subprocess can do: exit with a return
\* code, stdout and stderr, or fail to launch (subprocess.run raises).
Min(S) == CHOOSE x \in S : \A y \in S : x <= y

Behaviours ==
    { [kind |-> "exit",  returncode |-> 0, stdout |-> "report",  stderr |-> "",          text |-> ""],
      [kind |-> "exit",  returncode |-> 1, stdout |-> "",        stderr |-> "traceback", text |-> ""],
      [kind |-> "exit",  returncode |-> 1, stdout |-> "partial", stderr |-> "",          text |-> ""],
      [kind |-> "raise", returncode |-> 0, stdout |-> "",        stderr |-> "",          text |-> "launch failed"] }

NoBehaviour == [kind |-> "none", returncode |-> 0, stdout |-> "", stderr |-> "", text |-> ""]

\* The command lines the run is started with.
ArgSpace ==
    [ regulation    : {"", "GDPR"},
      custom_policy : BOOLEAN,
      list_agents   : BOOLEAN,
      agents        : {NoFilter, {1}, {GhostAgent}},
      output_dir    : BOOLEAN,
      parallel      : 0..MaxParallel ]

(***************************************************************************)
(* Part I: helpers of analyze_all.py                                       *)
(***************************************************************************)
\* get_agent_files(): the definition files, in glob order
get_agent_files == [i \in 1..Cardinality(agentFiles) |-> i]

\* load_agent_info(f): None (here <<>>) when the file cannot be loaded
load_agent_info(f) ==
    IF f \in badFiles THEN <<>>
    ELSE << [id |-> f, name |-> f, file |-> f] >>

\* the log find_log_file() associates with the agent of file f
LogFor(f) == IF f \in logNames THEN f ELSE NoLog

RECURSIVE LoadAll(_)
\* main(): the loop that loads every file and attaches its log
LoadAll(fs) ==
    IF fs = <<>> THEN <<>>
    ELSE LET info == load_agent_info(Head(fs))
         IN  (IF info = <<>> THEN <<>>
              ELSE << [id |-> info[1].id, name |-> info[1].name,
                       file |-> info[1].file, log_file |-> LogFor(info[1].name)] >>)
             \o LoadAll(Tail(fs))

\* main(): the --agent filter
FilterAgents(as, wanted) ==
    SelectSeq(as, LAMBDA a : a.id \in wanted \/ a.name \in wanted)

\* lines 154-158: the policy options of the analyzer's command line
PolicyOptions(a) ==
    (IF a.regulation # "" THEN {"--regulation"} ELSE {})
    \cup (IF a.custom_policy THEN {"--custom-policy"} ELSE {})

\* run_policy_analyzer() without the `or "Unknown error"` of line 175
run_policy_analyzer_raw_stderr(b) ==
    IF b.kind = "raise" THEN [success |-> FALSE, output |-> b.text]
    ELSE IF b.returncode # 0
         THEN [success |-> FALSE, output |-> b.stderr]
         ELSE [success |-> TRUE, output |-> b.stdout]

\* run_policy_analyzer(): (success, output) from what the subprocess did
run_policy_analyzer(b) ==
    IF b.kind = "raise" THEN [success |-> FALSE, output |-> b.text]
    ELSE IF b.returncode # 0
         THEN [success |-> FALSE,
               output  |-> IF b.stderr # "" THEN b.stderr ELSE "Unknown error"]
         ELSE [success |-> TRUE, output |-> b.stdout]

\* analyze_agent() that numbers every result 1 instead of using its idx
analyze_agent_stale_idx(idx, agent, b) ==
    LET r == run_policy_analyzer(b)
    IN  [idx |-> 1, agent_id |-> agent.id, agent_name |-> agent.name,
         success |-> r.success, output |-> r.output,
         had_log |-> agent.log_file # NoLog, log_file |-> agent.log_file]

\* a result whose log flag is dropped when the analyzer failed
analyze_agent_log_on_success(idx, agent, b) ==
    LET r == run_policy_analyzer(b)
    IN  [idx |-> idx, agent_id |-> agent.id, agent_name |-> agent.name,
         success |-> r.success, output |-> r.output,
         had_log |-> agent.log_file # NoLog /\ r.success, log_file |-> agent.log_file]

\* analyze_agent((idx, agent)): the result dict
analyze_agent(idx, agent, b) ==
    LET r == run_policy_analyzer(b)
    IN  [idx |-> idx, agent_id |-> agent.id, agent_name |-> agent.name,
         success |-> r.success, output |-> r.output,
         had_log |-> agent.log_file # NoLog, log_file |-> agent.log_file]

RECURSIVE InsertByIdx(_, _)
InsertByIdx(r, s) ==
    IF s = <<>> THEN <<r>>
    ELSE IF r.idx < Head(s).idx THEN <<r>> \o s
         ELSE <<Head(s)>> \o InsertByIdx(r, Tail(s))

RECURSIVE SortFrom(_, _)
SortFrom(s, acc) ==
    IF s = <<>> THEN acc ELSE SortFrom(Tail(s), InsertByIdx(Head(s), acc))

\* main() without the sort of line 354
SortByIdxSkipped(s) == s

\* results.sort(key=lambda x: x["idx"]) (stable)
SortByIdx(s) == SortFrom(s, <<>>)

\* a pool with one worker per agent instead of `parallel` workers
PoolSizePerAgent(p, n) == n

\* max_workers of the ThreadPoolExecutor main() creates, for `p` = parallel
\* and `n` = len(agents)
PoolSize(p, n) == p

\* parallel = max(1, args.parallel)
Parallel(a) == Max(1, a)

(***************************************************************************)
(* Names are sequences of lexemes: letters, digits and words of them       *)
(* (Alnum), "sp" the space, "-", "_", and "!" for any other character.     *)
(***************************************************************************)
Alnum == {"a", "b", "A", "B", "1", "w", "My", "Agent", "v2", "None"}

NotSearched == [searched |-> FALSE]
NoLookup == [agent_name |-> <<>>, exists |-> FALSE, logs |-> <<>>]
NoResponse == [route |-> "none"]

RECURSIVE MapChars(_)
\* lines 94-99: the loop over the characters
MapChars(name) ==
    IF name = <<>> THEN <<>>
    ELSE (IF Head(name) \in Alnum THEN <<Head(name)>>
          ELSE IF Head(name) \in {"sp", "-", "_"} THEN <<"_">>
          ELSE <<>>) \o MapChars(Tail(name))

\* "__" in sanitized
HasDouble(t) == \E i \in 1..(Len(t) - 1) : t[i] = "_" /\ t[i + 1] = "_"

RECURSIVE ReplaceDoubles(_)
\* sanitized.replace("__", "_"): every "__" met from the left, not overlapping
ReplaceDoubles(t) ==
    IF Len(t) < 2 THEN t
    ELSE IF t[1] = "_" /\ t[2] = "_" THEN <<"_">> \o ReplaceDoubles(SubSeq(t, 3, Len(t)))
    ELSE <<t[1]>> \o ReplaceDoubles(Tail(t))

RECURSIVE Collapse(_)
\* lines 101-102: the while loop
Collapse(t) == IF HasDouble(t) THEN Collapse(ReplaceDoubles(t)) ELSE t

RECURSIVE StripUnderscores(_)
\* str.strip("_")
StripUnderscores(t) ==
    IF t # <<>> /\ Head(t) = "_" THEN StripUnderscores(Tail(t))
    ELSE IF t # <<>> /\ t[Len(t)] = "_" THEN StripUnderscores(SubSeq(t, 1, Len(t) - 1))
    ELSE t

\* a sanitize that leaves runs of underscores as they are
sanitize_without_collapse(name) == StripUnderscores(MapChars(name))

\* sanitize_for_filename(name), lines 91-103
sanitize_for_filename(name) == StripUnderscores(Collapse(MapChars(name)))

\* str.lower() of a name
LowerName(t) ==
    [i \in DOMAIN t |->
        CASE t[i] = "A" -> "a" [] t[i] = "B" -> "b" [] t[i] = "My" -> "my" [] t[i] = "Agent" -> "agent"
          [] t[i] = "None" -> "none" [] OTHER -> t[i]]

\* str.replace("_", "")
WithoutUnderscores(t) == SelectSeq(t, LAMBDA c : c # "_")

\* lines 116-119: does the file of base name log_name match the sanitized name
LogMatches(log_name, sanitized_name) ==
    \/ LowerName(log_name) = LowerName(sanitized_name)
    \/ LowerName(WithoutUnderscores(log_name)) = LowerName(WithoutUnderscores(sanitized_name))

\* find_log_file(agent_name), lines 106-122, in a LOG_OUTPUT_DIR that exists or
\* not and whose *.csv files glob() yields in the order of logs: the base name
\* of the file returned in a tuple, <<>> for None
find_log_file(agent_name, exists, logs) ==
    LET sanitized_name == sanitize_for_filename(agent_name)
        hits == {i \in DOMAIN logs : LogMatches(logs[i], sanitized_name)}
    IN  IF ~exists \/ hits = {} THEN <<>> ELSE <<logs[Min(hits)]>>

\* the name of the report file of a result
OutputFile(r) == r.agent_id

\* the report file main() writes for result r
ReportOf(r) ==
    [agent_name |-> r.agent_name, agent_id |-> r.agent_id,
     log_file   |-> r.log_file,
     regulation |-> IF args.regulation # "" THEN args.regulation ELSE "Custom policy",
     body       |-> r.output]

\* sum(1 for r in results if r["success"])
Successful(rs) == Cardinality({i \in DOMAIN rs : rs[i].success})

\* sum(1 for r in results if r["had_log"])
WithLogs(rs) == Cardinality({i \in DOMAIN rs : rs[i].had_log})

(***************************************************************************)
(* Part I: the run                                                         *)
(***************************************************************************)
N == Len(agents)

Running == {i \in DOMAIN fut : fut[i] = "running"}

InitRun ==
    /\ pc = "validate"
    /\ exitStatus = NoExit
    /\ args \in ArgSpace
    /\ \E n \in 0..MaxAgents :
         /\ agentFiles = 1..n
         /\ badFiles \in {{}, {1} \cap (1..n), 1..n}
         /\ logNames \in {{}, (1..n) \ {2}}
    /\ outputDirExists = FALSE
    /\ files = << >>
    /\ agents = <<>>
    /\ parallel = 0
    /\ results = <<>>
    /\ fut = <<>>
    /\ ret = <<>>
    /\ queue = <<>>
    /\ nthreads = 0
    /\ completed = 0
    /\ progress = <<>>
    /\ invoked = <<>>
    /\ env = <<>>
    /\ saveIdx = 0
    /\ warnings = {}
    /\ summary = NoSummary

\* no report artifact is read during an orchestrator run
InitNoDocs ==
    /\ docs = <<>>
    /\ parsed = <<>>

\* no result waits to be saved
InitNoSave ==
    /\ jobs = <<>>
    /\ written = 0

\* no name is being sanitized or matched
InitNoNames ==
    /\ tokens = <<>>
    /\ lookup = NoLookup
    /\ found = NotSearched

\* no request has been made to the web UI
InitNoRequest == response = NoResponse

Exit(code) ==
    /\ pc' = "exited"
    /\ exitStatus' = code

\* a validation that lets every command line pass
ValidateNothing ==
    /\ pc = "validate"
    /\ pc' = "import"
    /\ UNCHANGED <<exitStatus, args, agentFiles, badFiles, logNames, outputDirExists,
                   files, agents, parallel, results, fut, ret, queue, nthreads,
                   completed, progress, invoked, env, saveIdx, warnings, summary>>
    /\ UNCHANGED wvars

\* lines 247-249: parser.error() when no policy source is given
Validate ==
    /\ pc = "validate"
    /\ IF ~args.list_agents /\ args.regulation = "" /\ ~args.custom_policy
       THEN Exit(2)
       ELSE pc' = "import" /\ UNCHANGED exitStatus
    /\ UNCHANGED <<args, agentFiles, badFiles, logNames, outputDirExists, files,
                   agents, parallel, results, fut, ret, queue, nthreads,
                   completed, progress, invoked, env, saveIdx, warnings, summary>>
    /\ UNCHANGED wvars

\* lines 255-259: run_agent_import(); the import tool succeeds or fails
RunAgentImport ==
    /\ pc = "import"
    /\ \E ok \in BOOLEAN :
         IF args.list_agents \/ ok
         THEN pc' = "discover" /\ UNCHANGED exitStatus
         ELSE Exit(1)
    /\ UNCHANGED <<args, agentFiles, badFiles, logNames, outputDirExists, files,
                   agents, parallel, results, fut, ret, queue, nthreads,
                   completed, progress, invoked, env, saveIdx, warnings, summary>>
    /\ UNCHANGED wvars

\* lines 261-298: discovery, loading, listing, filtering, output directory
Discover ==
    /\ pc = "discover"
    /\ LET agent_files == get_agent_files
           loaded      == LoadAll(agent_files)
           filtered    == FilterAgents(loaded, args.agents)
           scheduled   == IF args.agents # NoFilter THEN filtered ELSE loaded
       IN  IF agent_files = <<>>
           THEN Exit(1) /\ UNCHANGED <<agents, outputDirExists, parallel, fut, ret, invoked, env>>
           ELSE IF args.list_agents
           THEN Exit(0) /\ agents' = loaded
                        /\ UNCHANGED <<outputDirExists, parallel, fut, ret, invoked, env>>
           ELSE IF args.agents # NoFilter /\ filtered = <<>>
           THEN Exit(1) /\ agents' = loaded
                        /\ UNCHANGED <<outputDirExists, parallel, fut, ret, invoked, env>>
           ELSE /\ agents' = scheduled
                /\ outputDirExists' = (outputDirExists \/ args.output_dir)
                /\ parallel' = Parallel(args.parallel)
                /\ fut' = [i \in 1..Len(scheduled) |-> "new"]
                /\ ret' = [i \in 1..Len(scheduled) |-> NoResult]
                /\ invoked' = [i \in 1..Len(scheduled) |-> 0]
                /\ env' = [i \in 1..Len(scheduled) |-> NoBehaviour]
                /\ UNCHANGED exitStatus
                /\ pc' = IF Len(scheduled) = 0 THEN "save"
                         ELSE IF Parallel(args.parallel) = 1 THEN "sequential"
                         ELSE "submit"
    /\ UNCHANGED <<args, agentFiles, badFiles, logNames, files, results, queue,
                   nthreads, completed, progress, saveIdx, warnings, summary>>
    /\ UNCHANGED wvars

\* what the last append to `results` leads to: the loop goes on, or it ends
\* and line 354 sorts the results
Collected(rs, more) ==
    IF Len(rs) = N
    THEN results' = SortByIdx(rs) /\ pc' = "save"
    ELSE results' = rs /\ pc' = more

\* a sequential loop that launches the next item without waiting for the
\* one before it
SeqStartEager ==
    /\ pc = "sequential"
    /\ \E i \in DOMAIN fut :
           /\ fut[i] = "new"
           /\ \A j \in 1..(i - 1) : fut[j] # "new"
           /\ fut' = [fut EXCEPT ![i] = "running"]
           /\ invoked' = [invoked EXCEPT ![i] = @ + 1]
           /\ progress' = Append(progress, [kind |-> "Analyzing", n |-> i, agent |-> agents[i].id])
    /\ UNCHANGED <<pc, exitStatus, args, agentFiles, badFiles, logNames,
                   outputDirExists, files, agents, parallel, results, ret, queue,
                   nthreads, completed, env, saveIdx, warnings, summary>>
    /\ UNCHANGED wvars

\* lines 331-334: the sequential loop prints the "Analyzing" line of item i
\* and calls analyze_agent, which launches the analyzer
SeqStart ==
    /\ pc = "sequential"
    /\ LET i == Len(results) + 1
       IN  /\ fut[i] = "new"
           /\ fut' = [fut EXCEPT ![i] = "running"]
           /\ invoked' = [invoked EXCEPT ![i] = @ + 1]
           /\ progress' = Append(progress, [kind |-> "Analyzing", n |-> i, agent |-> agents[i].id])
    /\ UNCHANGED <<pc, exitStatus, args, agentFiles, badFiles, logNames,
                   outputDirExists, files, agents, parallel, results, ret, queue,
                   nthreads, completed, env, saveIdx, warnings, summary>>
    /\ UNCHANGED wvars

\* lines 334-336: the analyzer of item i returns; its elapsed time is printed
\* and its result appended
SeqFinish ==
    /\ pc = "sequential"
    /\ LET i == Len(results) + 1
       IN  /\ fut[i] = "running"
           /\ \E b \in Behaviours :
                LET result == analyze_agent(i, agents[i], b)
                IN  /\ env' = [env EXCEPT ![i] = b]
                    /\ ret' = [ret EXCEPT ![i] = result]
                    /\ fut' = [fut EXCEPT ![i] = "collected"]
                    /\ progress' = Append(progress, [kind |-> "elapsed", n |-> i, agent |-> result.agent_id])
                    /\ Collected(Append(results, result), "sequential")
    /\ UNCHANGED <<exitStatus, args, agentFiles, badFiles, logNames,
                   outputDirExists, files, agents, parallel, queue, nthreads,
                   completed, invoked, saveIdx, warnings, summary>>
    /\ UNCHANGED wvars

\* lines 342-345: executor.submit() of the next item; the executor queues it
\* and spawns a worker thread while it has fewer than max_workers
Submit ==
    /\ pc = "submit"
    /\ LET i == Len(queue) + Cardinality({j \in DOMAIN fut : fut[j] \notin {"new", "queued"}}) + 1
       IN  /\ fut[i] = "new"
           /\ fut' = [fut EXCEPT ![i] = "queued"]
           /\ queue' = Append(queue, i)
           /\ nthreads' = IF nthreads < PoolSize(parallel, N) THEN nthreads + 1 ELSE nthreads
           /\ pc' = IF i = N THEN "collect" ELSE "submit"
    /\ UNCHANGED <<exitStatus, args, agentFiles, badFiles, logNames,
                   outputDirExists, files, agents, parallel, results, ret,
                   completed, progress, invoked, env, saveIdx, warnings, summary>>
    /\ UNCHANGED wvars

\* a worker that calls analyze_agent for the oldest queued item and leaves it
\* in the queue
WorkerStartPeek ==
    /\ pc \in {"submit", "collect"}
    /\ queue # <<>>
    /\ Cardinality(Running) < nthreads
    /\ LET i == Head(queue)
       IN  /\ fut' = [fut EXCEPT ![i] = "running"]
           /\ invoked' = [invoked EXCEPT ![i] = @ + 1]
    /\ queue' = queue
    /\ UNCHANGED <<pc, exitStatus, args, agentFiles, badFiles, logNames,
                   outputDirExists, files, agents, parallel, results, ret,
                   nthreads, completed, progress, env, saveIdx, warnings, summary>>
    /\ UNCHANGED wvars

\* a free worker thread takes the oldest queued item and calls analyze_agent
WorkerStart ==
    /\ pc \in {"submit", "collect"}
    /\ queue # <<>>
    /\ Cardinality(Running) < nthreads
    /\ LET i == Head(queue)
       IN  /\ fut' = [fut EXCEPT ![i] = "running"]
           /\ invoked' = [invoked EXCEPT ![i] = @ + 1]
    /\ queue' = Tail(queue)
    /\ UNCHANGED <<pc, exitStatus, args, agentFiles, badFiles, logNames,
                   outputDirExists, files, agents, parallel, results, ret,
                   nthreads, completed, progress, env, saveIdx, warnings, summary>>
    /\ UNCHANGED wvars

\* the analyzer of a running item returns; the worker sets the future's result
WorkerFinish ==
    /\ pc \in {"submit", "collect"}
    /\ \E i \in Running :
         \E b \in Behaviours :
            /\ env' = [env EXCEPT ![i] = b]
            /\ ret' = [ret EXCEPT ![i] = analyze_agent(i, agents[i], b)]
            /\ fut' = [fut EXCEPT ![i] = "done"]
    /\ UNCHANGED <<pc, exitStatus, args, agentFiles, badFiles, logNames,
                   outputDirExists, files, agents, parallel, results, queue,
                   nthreads, completed, progress, invoked, saveIdx, warnings, summary>>
    /\ UNCHANGED wvars

\* lines 346-351: as_completed() yields a finished future; main() counts it,
\* prints its "Done" line and appends its result
Collect ==
    /\ pc = "collect"
    /\ \E i \in DOMAIN fut :
         /\ fut[i] = "done"
         /\ LET result == ret[i]
            IN  /\ completed' = completed + 1
                /\ progress' = Append(progress, [kind |-> "Done", n |-> completed + 1, agent |-> result.agent_id])
                /\ fut' = [fut EXCEPT ![i] = "collected"]
                /\ Collected(Append(results, result), "collect")
    /\ UNCHANGED <<exitStatus, args, agentFiles, badFiles, logNames,
                   outputDirExists, files, agents, parallel, ret, queue, nthreads,
                   invoked, env, saveIdx, warnings, summary>>
    /\ UNCHANGED wvars

\* a save loop that writes a file for the successful results only
SaveResultSkipsFailed ==
    /\ pc = "save"
    /\ saveIdx < Len(results)
    /\ LET result == results[saveIdx + 1]
       IN  /\ files' = IF args.output_dir /\ result.success
                       THEN [f \in DOMAIN files \cup {OutputFile(result)} |->
                               IF f = OutputFile(result) THEN ReportOf(result) ELSE files[f]]
                       ELSE files
           /\ warnings' = IF result.success THEN warnings ELSE warnings \cup {result.idx}
    /\ saveIdx' = saveIdx + 1
    /\ UNCHANGED <<pc, exitStatus, args, agentFiles, badFiles, logNames,
                   outputDirExists, agents, parallel, results, fut, ret, queue,
                   nthreads, completed, progress, invoked, env, summary>>
    /\ UNCHANGED wvars

\* lines 357-382: one round of the save/print loop
SaveResult ==
    /\ pc = "save"
    /\ saveIdx < Len(results)
    /\ LET result == results[saveIdx + 1]
       IN  /\ files' = IF args.output_dir
                       THEN [f \in DOMAIN files \cup {OutputFile(result)} |->
                               IF f = OutputFile(result) THEN ReportOf(result) ELSE files[f]]
                       ELSE files
           /\ warnings' = IF result.success THEN warnings ELSE warnings \cup {result.idx}
    /\ saveIdx' = saveIdx + 1
    /\ UNCHANGED <<pc, exitStatus, args, agentFiles, badFiles, logNames,
                   outputDirExists, agents, parallel, results, fut, ret, queue,
                   nthreads, completed, progress, invoked, env, summary>>
    /\ UNCHANGED wvars

\* a summary that ends the run with status 1 when an item failed
SummaryFailsRun ==
    /\ pc = "save"
    /\ saveIdx = Len(results)
    /\ summary' = [printed    |-> TRUE,
                   total      |-> Len(results),
                   successful |-> Successful(results),
                   with_logs  |-> WithLogs(results),
                   status     |-> [i \in DOMAIN results |->
                                     IF results[i].success THEN "ok" ELSE "FAILED"]]
    /\ pc' = "done"
    /\ exitStatus' = IF warnings = {} THEN 0 ELSE 1
    /\ UNCHANGED <<args, agentFiles, badFiles, logNames, outputDirExists, files,
                   agents, parallel, results, fut, ret, queue, nthreads,
                   completed, progress, invoked, env, saveIdx, warnings>>
    /\ UNCHANGED wvars

\* lines 384-410: the summary; main() returns
Summary ==
    /\ pc = "save"
    /\ saveIdx = Len(results)
    /\ summary' = [printed    |-> TRUE,
                   total      |-> Len(results),
                   successful |-> Successful(results),
                   with_logs  |-> WithLogs(results),
                   status     |-> [i \in DOMAIN results |->
                                     IF results[i].success THEN "ok" ELSE "FAILED"]]
    /\ pc' = "done"
    /\ exitStatus' = 0
    /\ UNCHANGED <<args, agentFiles, badFiles, logNames, outputDirExists, files,
                   agents, parallel, results, fut, ret, queue, nthreads,
                   completed, progress, invoked, env, saveIdx, warnings>>
    /\ UNCHANGED wvars

Init == InitRun /\ InitNoDocs /\ InitNoSave /\ InitNoNames /\ InitNoRequest

Next ==
    \/ Validate
    \/ RunAgentImport
    \/ Discover
    \/ SeqStart
    \/ SeqFinish
    \/ Submit
    \/ WorkerStart
    \/ WorkerFinish
    \/ Collect
    \/ SaveResult
    \/ Summary

Spec == Init /\ [][Next]_vars

\* the runs started with --regulation alone, no agent having a log: the
\* policy source and the logs play no part in how far a run gets
InitFair ==
    /\ Init
    /\ args.regulation # "" /\ ~args.custom_policy
    /\ logNames = {}

\* every step of main(), of a worker thread and of a launched analyzer that
\* can be taken is eventually taken: threads run, and every invocation returns
FairSpec == InitFair /\ [][Next]_vars /\ WF_vars(Next)

(***************************************************************************)
(* Part II: report texts                                                   *)
(*                                                                         *)
(* A text is a sequence of lexemes, each standing for a fixed string:      *)
(*   "CR"     Compliance Rating        "Rating"  Rating                    *)
(*   ":"      :                        "sp"      one space                 *)
(*   "nl"     a line break             "#"       #                         *)
(*   "**"     **                       "w"       a word, x                 *)
(*   "Non"    Non-Compliant            "Part"    Partially Compliant       *)
(*   "Comp"   Compliant                "comp"    compliant                 *)
(*   "bNon"   **Non-Compliant**        "bPart"   **Partially Compliant**   *)
(*   "bComp"  **Compliant**            "None"    None                      *)
(*   "Agent:" Agent:                   "ID:"     ID:                       *)
(*   "Log:"   Log file:                "Reg:"    Regulation:               *)
(*   "===="   a run of 60 = characters                                     *)
(* The upper-case lexemes have the lower-case images LowerTok gives.       *)
(***************************************************************************)
\* the largest length of a free text
MaxLen == 3
\* the largest number of separator lexemes between a rating declaration and
\* the verdict phrase
MaxGap == 3
\* the largest number of emphasised phrases of a text made of them
MaxVotes == 4
\* the largest length of a header value
MaxName == 2
\* the largest length of a short report body
MaxBody == 2

\* the largest length of the leading part of a file name
MaxId == 3

\* the largest length of a name given to sanitize_for_filename()
MaxStr == 5
\* the largest length of an agent name and of a log file name to be matched
MaxStem == 2
\* the largest number of *.csv files in LOG_OUTPUT_DIR
MaxLogs == 1
\* the largest number of results saved into one output directory
MaxJobs == 2

Ws == {"sp", "nl"}
Markup == {"#", "**"}
Phrases == {"non", "part", "comp"}

\* str.lower() of one lexeme
LowerTok(t) ==
    CASE t = "CR"     -> "cr"
      [] t = "Rating" -> "rating"
      [] t = "Non"    -> "non"
      [] t = "Part"   -> "part"
      [] t = "Comp"   -> "comp"
      [] t = "bNon"   -> "bnon"
      [] t = "bPart"  -> "bpart"
      [] t = "bComp"  -> "bcomp"
      [] t = "None"   -> "none"
      [] t = "Agent:" -> "agent:"
      [] t = "ID:"    -> "id:"
      [] t = "Log:"   -> "log:"
      [] t = "Reg:"   -> "reg:"
      [] OTHER        -> t

\* content.lower()
Lower(c) == [i \in DOMAIN c |-> LowerTok(c[i])]

RECURSIVE Spell(_)
\* a lower-case text with its emphasised phrases spelt out as ** phrase **
Spell(c) ==
    IF c = <<>> THEN <<>>
    ELSE (CASE Head(c) = "bnon"  -> <<"**", "non", "**">>
            [] Head(c) = "bpart" -> <<"**", "part", "**">>
            [] Head(c) = "bcomp" -> <<"**", "comp", "**">>
            [] OTHER             -> <<Head(c)>>) \o Spell(Tail(c))

RECURSIVE Skip(_, _, _)
\* the first position from j on whose lexeme is not in S (a greedy S*)
Skip(t, j, S) ==
    IF j <= Len(t) /\ t[j] \in S THEN Skip(t, j + 1, S) ELSE j

At(t, j) == IF j \in DOMAIN t THEN t[j] ELSE ""

\* the position of the verdict phrase when the pattern of lines 712-715,
\*   compliance\s+rating[:\s]*\n*\s*[#*]*\s*(non[- ]?compliant|partially\s+compliant|compliant)
\* matches from the declaration at i, else 0
RatingDeclAt(t, i) ==
    IF At(t, i) # "cr" THEN 0
    ELSE LET a == Skip(t, i + 1, {":"} \cup Ws)
             m == Skip(t, a, Markup)
             w == Skip(t, m, Ws)
         IN  IF At(t, w) \in Phrases THEN w ELSE 0

\* the second pattern with the "rating:" label made mandatory: the position
\* of the verdict phrase when it matches from i, else 0
EmphasisAtLabelled(t, i) ==
    IF At(t, i) # "**" THEN 0
    ELSE LET l == Skip(t, i + 3, Ws)
         IN  IF At(t, i + 1) = "rating" /\ At(t, i + 2) = ":"
                /\ At(t, l) \in Phrases /\ At(t, l + 1) = "**"
             THEN l
             ELSE 0

\* the position of the verdict phrase when the pattern of lines 718-721,
\*   \*\*(?:rating:\s*)?(non[- ]?compliant|partially\s+compliant|compliant)\*\*
\* matches from i, else 0
EmphasisAt(t, i) ==
    IF At(t, i) # "**" THEN 0
    ELSE LET l == Skip(t, i + 3, Ws)
         IN  IF At(t, i + 1) = "rating" /\ At(t, i + 2) = ":"
                /\ At(t, l) \in Phrases /\ At(t, l + 1) = "**"
             THEN l
             ELSE IF At(t, i + 1) \in Phrases /\ At(t, i + 2) = "**"
                  THEN i + 1
                  ELSE 0

\* re.search of the first pattern: group(1) of the leftmost match, "" if none
SearchDeclaration(t) ==
    LET hits == {i \in DOMAIN t : RatingDeclAt(t, i) # 0}
    IN  IF hits = {} THEN "" ELSE t[RatingDeclAt(t, Min(hits))]

\* re.search of the second pattern: group(1) of the leftmost match, "" if none
SearchEmphasis(t) ==
    LET hits == {i \in DOMAIN t : EmphasisAt(t, i) # 0}
    IN  IF hits = {} THEN "" ELSE t[EmphasisAt(t, Min(hits))]

RECURSIVE FindAll(_, _, _)
\* len(re.findall(r'\*\*<phrase>\*\*', t)): the matches found from i on, each
\* search starting where the match before it ended
FindAll(t, phrase, i) ==
    IF i + 2 > Len(t) THEN 0
    ELSE IF t[i] = "**" /\ t[i + 1] = phrase /\ t[i + 2] = "**"
         THEN 1 + FindAll(t, phrase, i + 3)
         ELSE FindAll(t, phrase, i + 1)

Unknown == [rating |-> "Unknown", rating_class |-> "unknown", rating_short |-> "?"]
NonCompliant == [rating |-> "Non-Compliant", rating_class |-> "non-compliant", rating_short |-> "NC"]
PartiallyCompliant == [rating |-> "Partially Compliant", rating_class |-> "partial", rating_short |-> "PC"]
Compliant == [rating |-> "Compliant", rating_class |-> "compliant", rating_short |-> "C"]

\* lines 723-736: the rating a matched phrase stands for
RatingOfPhrase(detected) ==
    IF detected = "non" THEN NonCompliant
    ELSE IF detected = "part" THEN PartiallyCompliant
    ELSE Compliant

\* a count that rates a text without emphasised phrases Compliant
RatingByCountLenient(t) ==
    LET non_compliant_count == FindAll(t, "non", 1)
        compliant_count     == FindAll(t, "comp", 1) - non_compliant_count
        partial_count       == FindAll(t, "part", 1)
    IN  IF partial_count > 0 /\ partial_count >= non_compliant_count THEN PartiallyCompliant
        ELSE IF non_compliant_count > compliant_count THEN NonCompliant
        ELSE Compliant

\* lines 738-754: the rating by counts of emphasised phrases
RatingByCount(t) ==
    LET non_compliant_count == FindAll(t, "non", 1)
        compliant_count     == FindAll(t, "comp", 1) - non_compliant_count
        partial_count       == FindAll(t, "part", 1)
    IN  IF partial_count > 0 /\ partial_count >= non_compliant_count THEN PartiallyCompliant
        ELSE IF non_compliant_count > compliant_count THEN NonCompliant
        ELSE IF compliant_count > 0 THEN Compliant
        ELSE Unknown

\* a detection that counts the emphasised phrases before it looks for the
\* first of them
DetectRatingVotesFirst(text) ==
    LET content_lower == Spell(Lower(text))
        declared      == SearchDeclaration(content_lower)
        voted         == RatingByCount(content_lower)
        emphasised    == SearchEmphasis(content_lower)
    IN  IF declared # "" THEN RatingOfPhrase(declared)
        ELSE IF voted # Unknown THEN voted
        ELSE IF emphasised # "" THEN RatingOfPhrase(emphasised)
        ELSE Unknown

\* a detection that looks for an emphasised phrase before it looks for the
\* rating declaration
DetectRatingEmphasisFirst(text) ==
    LET content_lower == Spell(Lower(text))
        emphasised    == SearchEmphasis(content_lower)
        rating_section == IF emphasised # "" THEN emphasised ELSE SearchDeclaration(content_lower)
    IN  IF rating_section # "" THEN RatingOfPhrase(rating_section)
        ELSE RatingByCount(content_lower)

\* lines 703-754: the rating of a text
DetectRating(text) ==
    LET content_lower == Spell(Lower(text))
        declared      == SearchDeclaration(content_lower)
        rating_section == IF declared # "" THEN declared ELSE SearchEmphasis(content_lower)
    IN  IF rating_section # "" THEN RatingOfPhrase(rating_section)
        ELSE RatingByCount(content_lower)

(***************************************************************************)
(* Part II: parse_analysis_file                                            *)
(*                                                                         *)
(* A file name (stem) is a sequence of lexemes too: "_" the underscore,    *)
(* "analysis", upper-case words ("GDPR", "HIPAA", "CCPA"), digits ("1"),   *)
(* and words with lower-case letters ("a", "b", "ePrivacy", "Directive").  *)
(***************************************************************************)
UpperWords == {"GDPR", "HIPAA", "CCPA"}
Caseless == {"1", "_", "-"}

\* the position of the first line break of c, 0 if it has none
FirstBreak(c) ==
    LET at == {i \in DOMAIN c : c[i] = "nl"} IN IF at = {} THEN 0 ELSE Min(at)

\* the position of the first underscore of f, 0 if it has none
FirstUnderscore(f) ==
    LET at == {i \in DOMAIN f : f[i] = "_"} IN IF at = {} THEN 0 ELSE Min(at)

\* the position of the last underscore of f, 0 if it has none
LastUnderscore(f) ==
    LET at == {i \in DOMAIN f : f[i] = "_"}
    IN  IF at = {} THEN 0 ELSE CHOOSE x \in at : \A y \in at : y <= x

RECURSIVE SplitLines(_)
\* content.split('\n')
SplitLines(c) ==
    LET k == FirstBreak(c)
    IN  IF k = 0 THEN <<c>>
        ELSE <<SubSeq(c, 1, k - 1)>> \o SplitLines(SubSeq(c, k + 1, Len(c)))

RECURSIVE JoinLines(_)
\* '\n'.join(lines)
JoinLines(lines) ==
    IF lines = <<>> THEN <<>>
    ELSE IF Len(lines) = 1 THEN lines[1]
    ELSE lines[1] \o <<"nl">> \o JoinLines(Tail(lines))

RECURSIVE LStrip(_)
LStrip(c) == IF c # <<>> /\ Head(c) \in Ws THEN LStrip(Tail(c)) ELSE c

RECURSIVE RStrip(_)
RStrip(c) == IF c # <<>> /\ c[Len(c)] \in Ws THEN RStrip(SubSeq(c, 1, Len(c) - 1)) ELSE c

\* str.strip()
Strip(c) == RStrip(LStrip(c))

\* the header fields before the scan; log_file is <<>> for None, else <<value>>
NoHeader ==
    [agent_name |-> <<>>, agent_id |-> <<>>, log_file |-> <<>>,
     regulation |-> <<>>, header_end |-> 0]

RECURSIVE ScanHeaderNoBreak(_, _, _)
\* a loop over the lines that goes on after the separator line
ScanHeaderNoBreak(lines, i, h) ==
    IF i > Len(lines) THEN h
    ELSE LET line  == lines[i]
             first == IF At(line, 2) = "sp" \/ At(line, 1) = "====" THEN At(line, 1) ELSE ""
             value == SubSeq(line, 3, Len(line))
         IN  IF first = "Agent:" THEN ScanHeaderNoBreak(lines, i + 1, [h EXCEPT !.agent_name = value])
             ELSE IF first = "ID:" THEN ScanHeaderNoBreak(lines, i + 1, [h EXCEPT !.agent_id = value])
             ELSE IF first = "Log:"
                  THEN ScanHeaderNoBreak(lines, i + 1,
                           [h EXCEPT !.log_file = IF value # <<"None">> THEN <<value>> ELSE <<>>])
             ELSE IF first = "Reg:" THEN ScanHeaderNoBreak(lines, i + 1, [h EXCEPT !.regulation = value])
             ELSE IF first = "====" /\ h.header_end = 0
                  THEN ScanHeaderNoBreak(lines, i + 1, [h EXCEPT !.header_end = i])
             ELSE ScanHeaderNoBreak(lines, i + 1, h)

RECURSIVE ScanHeader(_, _, _)
\* lines 664-677: the loop over the lines, from line i with the fields h
ScanHeader(lines, i, h) ==
    IF i > Len(lines) THEN h
    ELSE LET line  == lines[i]
             first == IF At(line, 2) = "sp" \/ At(line, 1) = "====" THEN At(line, 1) ELSE ""
             value == SubSeq(line, 3, Len(line))
         IN  IF first = "Agent:" THEN ScanHeader(lines, i + 1, [h EXCEPT !.agent_name = value])
             ELSE IF first = "ID:" THEN ScanHeader(lines, i + 1, [h EXCEPT !.agent_id = value])
             ELSE IF first = "Log:"
                  THEN ScanHeader(lines, i + 1,
                           [h EXCEPT !.log_file = IF value # <<"None">> THEN <<value>> ELSE <<>>])
             ELSE IF first = "Reg:" THEN ScanHeader(lines, i + 1, [h EXCEPT !.regulation = value])
             ELSE IF first = "====" THEN [h EXCEPT !.header_end = i]
             ELSE ScanHeader(lines, i + 1, h)

\* a test that only asks for the absence of lower-case letters
IsUpperLenient(f) == \A i \in DOMAIN f : f[i] \in UpperWords \cup Caseless

\* str.isupper(): no lower-case letter and at least one upper-case one
IsUpper(f) ==
    /\ \A i \in DOMAIN f : f[i] \in UpperWords \cup Caseless
    /\ \E i \in DOMAIN f : f[i] \in UpperWords

\* str.replace('_', '-')
Dashed(f) == [i \in DOMAIN f |-> IF f[i] = "_" THEN "-" ELSE f[i]]

\* lines 679-698: agent id and regulation from the file name where the
\* header gave none
FromFileName(stem, agent_id, regulation) ==
    LET given == [agent_id |-> agent_id, regulation |-> regulation]
        n     == Len(stem)
    IN  IF agent_id # <<>> /\ regulation # <<>> THEN given
        ELSE IF ~(n >= 2 /\ stem[n - 1] = "_" /\ stem[n] = "analysis") THEN given
        ELSE LET fname == SubSeq(stem, 1, n - 2)
                 k     == LastUnderscore(fname)
                 potential_reg == SubSeq(fname, k + 1, Len(fname))
                 potential_id  == SubSeq(fname, 1, k - 1)
             IN  IF k = 0 THEN given
                 ELSE IF IsUpper(potential_reg) \/ potential_reg = <<"ePrivacy", "_", "Directive">>
                      THEN [agent_id   |-> IF agent_id = <<>> THEN potential_id ELSE agent_id,
                            regulation |-> IF regulation = <<>> THEN Dashed(potential_reg) ELSE regulation]
                      ELSE given

\* parse_analysis_file(filepath), lines 653-766
parse_analysis_file(filepath) ==
    LET content  == filepath.content
        lines    == SplitLines(content)
        h        == ScanHeader(lines, 1, NoHeader)
        named    == FromFileName(filepath.stem, h.agent_id, h.regulation)
        agent_id == IF named.agent_id = <<>> THEN filepath.stem ELSE named.agent_id
        detected == DetectRating(content)
    IN  [file         |-> filepath.stem,
         agent_id     |-> agent_id,
         agent_name   |-> IF h.agent_name # <<>> THEN h.agent_name ELSE agent_id,
         regulation   |-> named.regulation,
         has_log      |-> h.log_file # <<>>,
         rating       |-> detected.rating,
         rating_class |-> detected.rating_class,
         rating_short |-> detected.rating_short,
         content      |-> Strip(JoinLines(SubSeq(lines, h.header_end + 1, Len(lines))))]

\* analyze_all.py lines 367-372: the text of a report file
ReportText(agent_name, agent_id, log_name, regulation, output) ==
    <<"Agent:", "sp">> \o agent_name \o <<"nl">>
    \o <<"ID:", "sp">> \o agent_id \o <<"nl">>
    \o <<"Log:", "sp">> \o log_name \o <<"nl">>
    \o <<"Reg:", "sp">> \o regulation \o <<"nl">>
    \o <<"====", "nl", "nl">> \o output

(***************************************************************************)
(* Part II: the inputs                                                     *)
(***************************************************************************)
SeqsUpTo(S, n) == UNION {[1..k -> S] : k \in 0..n}

TextLexemes ==
    {"CR", "Rating", ":", "sp", "nl", "#", "**", "Non", "Part", "Comp", "comp",
     "bNon", "bPart", "bComp", "w"}

Separators == {":", "sp", "nl", "#", "**"}

EmphasisedPhrases == {"bNon", "bPart", "bComp"}

\* every text of at most MaxLen lexemes
FreeTexts == SeqsUpTo(TextLexemes, MaxLen)

\* a rating declaration, separators and a verdict phrase, with or without an
\* emphasised phrase before and after
DeclaredTexts ==
    { pre \o <<"CR">> \o gap \o <<p>> \o post :
        pre \in SeqsUpTo(EmphasisedPhrases, 1), gap \in SeqsUpTo(Separators, MaxGap),
        p \in {"Non", "Part", "Comp"}, post \in SeqsUpTo(EmphasisedPhrases, 1) }

\* texts made of emphasised phrases and spaces
VoteTexts == SeqsUpTo(EmphasisedPhrases \cup {"sp"}, MaxVotes)

NameLexemes == {"w", "CR", "Comp", "bNon"}

BodyLexemes == {"w", "bPart", "nl"}

\* the state of an orchestrator that is not running
InitNoRun ==
    /\ pc = "idle"
    /\ exitStatus = NoExit
    /\ args = [regulation |-> "", custom_policy |-> FALSE, list_agents |-> FALSE,
               agents |-> NoFilter, output_dir |-> FALSE, parallel |-> 1]
    /\ agentFiles = {}
    /\ badFiles = {}
    /\ logNames = {}
    /\ outputDirExists = FALSE
    /\ files = << >>
    /\ agents = <<>>
    /\ parallel = 0
    /\ results = <<>>
    /\ fut = <<>>
    /\ ret = <<>>
    /\ queue = <<>>
    /\ nthreads = 0
    /\ completed = 0
    /\ progress = <<>>
    /\ invoked = <<>>
    /\ env = <<>>
    /\ saveIdx = 0
    /\ warnings = {}
    /\ summary = NoSummary

\* RESULTS_DIR holds one artifact, of any text
InitClassify ==
    /\ InitNoRun
    /\ InitNoSave
    /\ InitNoNames
    /\ InitNoRequest
    /\ \E t \in FreeTexts \cup DeclaredTexts \cup VoteTexts :
         docs = << [stem |-> <<"a", "_", "GDPR", "_", "analysis">>, content |-> t] >>
    /\ parsed = <<>>

\* RESULTS_DIR holds two reports written with the same output and regulation
\* for agents of any names
InitPair ==
    /\ InitNoRun
    /\ InitNoSave
    /\ InitNoNames
    /\ InitNoRequest
    /\ \E na, nb \in SeqsUpTo(NameLexemes, MaxName) \ {<<>>} :
         \E body \in SeqsUpTo(BodyLexemes, MaxBody) :
            docs = << [stem    |-> <<"a", "_", "analysis">>,
                       content |-> ReportText(na, <<"a">>, <<"None">>, <<"GDPR">>, body)],
                      [stem    |-> <<"b", "_", "analysis">>,
                       content |-> ReportText(nb, <<"b">>, <<"None">>, <<"GDPR">>, body)] >>
    /\ parsed = <<>>

\* the lexemes of the header values
ValueLexemes == {"w", "sp"}

\* the values of the "Log file: " line
LogValues == {<<>>, <<"None">>, <<"w">>, <<"None", "w">>}

\* the lexemes of the text after the separator line: words, line breaks,
\* header prefixes and separator lines
TailLexemes == {"w", "nl", "sp", "Agent:", "Reg:", "===="}

\* RESULTS_DIR holds one artifact with a full header block, under a name that
\* tells another agent and regulation than the header
InitHeader ==
    /\ InitNoRun
    /\ InitNoSave
    /\ InitNoNames
    /\ InitNoRequest
    /\ \E name \in SeqsUpTo(ValueLexemes, MaxName), id \in {<<>>, <<"a">>},
          log \in LogValues, reg \in {<<>>, <<"GDPR">>, <<"HIPAA">>},
          output \in SeqsUpTo(TailLexemes, MaxBody) :
         docs = << [stem    |-> <<"b", "_", "CCPA", "_", "analysis">>,
                    content |-> ReportText(name, id, log, reg, output),
                    from    |-> [agent_name |-> name, agent_id |-> id, log_name |-> log,
                                 regulation |-> reg, output |-> output]] >>
    /\ parsed = <<>>

\* the lexemes of the leading part of a file name
IdLexemes == {"a", "1", "_", "GDPR"}

\* the ways a file name ends: with a regulation in upper case, with the
\* two-word regulation, with a number or a lower-case word in its place, with
\* no regulation, with no _analysis
StemTails ==
    { <<"_", "GDPR", "_", "analysis">>, <<"_", "HIPAA", "-", "1", "_", "analysis">>,
      <<"_", "ePrivacy", "_", "Directive", "_", "analysis">>,
      <<"_", "1", "_", "analysis">>, <<"_", "b", "_", "analysis">>,
      <<"_", "analysis">>, <<"_", "GDPR">>, <<"analysis">>, <<>> }

\* texts without header and texts with one header line
SparseTexts ==
    SeqsUpTo({"w", "nl", "bNon"}, 1)
    \cup {<<"ID:", "sp", "w">>, <<"Reg:", "sp", "w">>, <<"Agent:", "sp", "w">>}

\* RESULTS_DIR holds one artifact with at most one header line, under any name
InitRecover ==
    /\ InitNoRun
    /\ InitNoSave
    /\ InitNoNames
    /\ InitNoRequest
    /\ \E x \in SeqsUpTo(IdLexemes, MaxId), tail \in StemTails, t \in SparseTexts :
         docs = << [stem |-> x \o tail, content |-> t] >>
    /\ parsed = <<>>

\* the place of a lexeme of a file name in the order of the characters
Code(c) ==
    CASE c = "sp" -> 1 [] c = "-" -> 2 [] c = "1" -> 3 [] c = "A" -> 4
      [] c = "B" -> 5 [] c = "CCPA" -> 6 [] c = "GDPR" -> 7 [] c = "HIPAA" -> 8
      [] c = "None" -> 9 [] c = "_" -> 10 [] c = "a" -> 11 [] c = "analysis" -> 12
      [] c = "b" -> 13 [] OTHER -> 14

RECURSIVE Before(_, _)
\* the order in which sorted() puts two file names
Before(f, g) ==
    IF g = <<>> THEN FALSE
    ELSE IF f = <<>> THEN TRUE
    ELSE IF Head(f) = Head(g) THEN Before(Tail(f), Tail(g))
    ELSE Code(Head(f)) < Code(Head(g))

\* the directory ds after open(name, "w") and the writes of d: a file of that
\* name is replaced, a new one takes its place in the sorted listing
PutDoc(ds, d) ==
    IF \E k \in DOMAIN ds : ds[k].stem = d.stem
    THEN [k \in DOMAIN ds |-> IF ds[k].stem = d.stem THEN d ELSE ds[k]]
    ELSE LET lower == SelectSeq(ds, LAMBDA e : Before(e.stem, d.stem))
             upper == SelectSeq(ds, LAMBDA e : ~Before(e.stem, d.stem))
         IN  lower \o <<d>> \o upper

\* line 365: the base name of the report file of a result
OutputStem(job) == sanitize_for_filename(job.agent_id) \o <<"_", "analysis">>

\* a report text that names the log without its .csv
OutputTextLogStem(job) ==
    ReportText(job.agent_name, job.agent_id,
               IF job.log_file = <<>> THEN <<"None">> ELSE job.log_file[1],
               IF job.regulation # <<>> THEN job.regulation ELSE <<"Custom", "sp", "policy">>,
               job.output)

\* lines 366-372: the text written for a result; log_file is <<>> for None,
\* else the base name of the log in a tuple, and regulation is <<>> in a run
\* without --regulation
OutputText(job) ==
    ReportText(job.agent_name, job.agent_id,
               IF job.log_file = <<>> THEN <<"None">> ELSE job.log_file[1] \o <<".csv">>,
               IF job.regulation # <<>> THEN job.regulation ELSE <<"Custom", "sp", "policy">>,
               job.output)

\* lines 357-373, with --output-dir: one round of the save loop of a run
WriteReport ==
    /\ pc = "idle"
    /\ written < Len(jobs)
    /\ LET job == jobs[written + 1]
       IN  docs' = PutDoc(docs, [stem |-> OutputStem(job), content |-> OutputText(job),
                                 from |-> job])
    /\ written' = written + 1
    /\ UNCHANGED <<parsed, jobs, tokens, lookup, found, response>>
    /\ UNCHANGED ovars

\* one call of sanitize_for_filename() on the last token
SanitizeName ==
    /\ pc = "idle"
    /\ Len(tokens) \in 1..2
    /\ tokens' = Append(tokens, sanitize_for_filename(tokens[Len(tokens)]))
    /\ UNCHANGED <<docs, parsed, jobs, written, lookup, found, response>>
    /\ UNCHANGED ovars

\* one call of find_log_file()
FindLogFile ==
    /\ pc = "idle"
    /\ ~found.searched
    /\ lookup # NoLookup
    /\ found' = [searched |-> TRUE,
                 log_file |-> find_log_file(lookup.agent_name, lookup.exists, lookup.logs)]
    /\ UNCHANGED <<docs, parsed, jobs, written, tokens, lookup, response>>
    /\ UNCHANGED ovars

\* the characters of the names given to sanitize_for_filename()
NameChars == {"a", "A", "sp", "-", "_", "!"}

\* the characters of the names to be matched
MatchChars == {"a", "A", "-", "_"}

\* any name, and the name My Agent--v2
InitSanitize ==
    /\ InitNoRun
    /\ InitNoDocs
    /\ InitNoSave
    /\ InitNoRequest
    /\ \E x \in SeqsUpTo(NameChars, MaxStr) \cup {<<"My", "sp", "Agent", "-", "-", "v2">>} :
         tokens = <<x>>
    /\ lookup = NoLookup
    /\ found = NotSearched

\* any agent name, and a LOG_OUTPUT_DIR that is missing or holds any files
InitMatch ==
    /\ InitNoRun
    /\ InitNoDocs
    /\ InitNoSave
    /\ InitNoRequest
    /\ tokens = <<>>
    /\ \E n \in SeqsUpTo(MatchChars, MaxStem), e \in BOOLEAN,
          ls \in SeqsUpTo(SeqsUpTo(MatchChars, MaxStem) \ {<<>>}, MaxLogs) :
         /\ ~e => ls = <<>>
         /\ lookup = [agent_name |-> n, exists |-> e, logs |-> ls]
         /\ lookup # NoLookup
    /\ found = NotSearched

\* the results of one run: any names, ids, logs and outputs
RichJobs ==
    [ agent_name : SeqsUpTo(ValueLexemes, MaxName),
      agent_id   : {<<>>, <<"a">>, <<"a", "sp", "b">>},
      log_file   : {<<>>, << <<"w">> >>, << <<"None">> >>},
      regulation : {<<>>, <<"GDPR">>},
      output     : SeqsUpTo(TailLexemes, MaxBody) ]

\* the results of runs into one directory: a few agents and regulations
PlainJobs ==
    [ agent_name : {<<"w">>},
      agent_id   : {<<"a">>, <<"b">>, <<"a", "sp", "b">>, <<"a", "-", "b">>},
      log_file   : {<<>>},
      regulation : {<<>>, <<"GDPR">>, <<"HIPAA">>},
      output     : {<<"w">>, <<"bNon">>} ]

\* an empty output directory and one result to save
InitRoundTrip ==
    /\ InitNoRun
    /\ InitNoNames
    /\ InitNoRequest
    /\ docs = <<>>
    /\ parsed = <<>>
    /\ \E j \in RichJobs : jobs = <<j>>
    /\ written = 0

\* an empty output directory and the results of one or more runs to save
InitSave ==
    /\ InitNoRun
    /\ InitNoNames
    /\ InitNoRequest
    /\ docs = <<>>
    /\ parsed = <<>>
    /\ jobs \in SeqsUpTo(PlainJobs, MaxJobs) \ {<<>>}
    /\ written = 0

\* get_all_analyses(), lines 776-785: every artifact parsed, in sorted order
GetAllAnalyses ==
    /\ pc = "idle"
    /\ parsed = <<>>
    /\ docs # <<>>
    /\ parsed' = [i \in DOMAIN docs |-> parse_analysis_file(docs[i])]
    /\ UNCHANGED <<docs, jobs, written, tokens, lookup, found, response>>
    /\ UNCHANGED ovars

NextWeb == GetAllAnalyses

\* one aggregation pass over one artifact
SpecClassify == InitClassify /\ [][NextWeb]_vars

\* one aggregation pass over two reports
SpecPair == InitPair /\ [][NextWeb]_vars

\* one aggregation pass over one artifact with a full header block
SpecHeader == InitHeader /\ [][NextWeb]_vars

\* one aggregation pass over one artifact with at most one header line
SpecRecover == InitRecover /\ [][NextWeb]_vars

NextSave == WriteReport \/ GetAllAnalyses

\* a report written by the orchestrator and read by the web UI
SpecRoundTrip == InitRoundTrip /\ [][NextSave]_vars

\* runs that save into one directory, and the web UI reading it
SpecSave == InitSave /\ [][NextSave]_vars

NextSanitize == SanitizeName

\* sanitize_for_filename() applied to a name and to its own result
SpecSanitize == InitSanitize /\ [][NextSanitize]_vars

NextMatch == FindLogFile

\* one search of a log for an agent name
SpecMatch == InitMatch /\ [][NextMatch]_vars

(***************************************************************************)
(* Part III: the views of the web UI                                       *)
(*                                                                         *)
(* An agent id, an agent name and a regulation are sequences of lexemes,   *)
(* as parse_analysis_file() returns them; <<>> is the empty string.  A     *)
(* response is the context a handler renders its template with, together   *)
(* with the request it answers and the artifacts that were on disk when it *)
(* was made.                                                               *)
(***************************************************************************)
\* sorted(s, key=...) and list.sort(key=...): the elements of s in ascending
\* order of their keys, elements of equal keys in the order they have in s
SortedBy(s, keys) ==
    LET Precedes(i, j) == Before(keys[i], keys[j]) \/ (keys[i] = keys[j] /\ i < j)
    IN  [k \in DOMAIN s |->
            s[CHOOSE i \in DOMAIN s : Cardinality({j \in DOMAIN s : Precedes(j, i)}) = k - 1]]

\* sorted(set(...)) of strings
SortedSet(S) ==
    [k \in 1..Cardinality(S) |->
        CHOOSE r \in S : Cardinality({q \in S : Before(q, r)}) = k - 1]

\* markdown.markdown(text, ...): the HTML rendering of a text, the work of
\* the markdown library
markdown_to_html(text) == [html_of |-> text]

\* analyses kept from the pass before, when there was one
get_all_analyses_cached ==
    IF parsed # <<>> THEN parsed
    ELSE [i \in DOMAIN docs |-> parse_analysis_file(docs[i])]

\* get_all_analyses(): every artifact of RESULTS_DIR parsed, in sorted order
get_all_analyses == [i \in DOMAIN docs |-> parse_analysis_file(docs[i])]

\* lines 802-807: the entry of analysis a in the regulation list of its agent
RegulationEntry(a) ==
    [name |-> a.regulation, rating |-> a.rating,
     rating_class |-> a.rating_class, rating_short |-> a.rating_short]

\* one round of the loop in which the has_log of an agent stays what its
\* first analysis said
AddAnalysisFirstLog(grouped, a) ==
    IF \E k \in DOMAIN grouped : grouped[k].id = a.agent_id
    THEN [k \in DOMAIN grouped |->
            IF grouped[k].id # a.agent_id THEN grouped[k]
            ELSE [id             |-> grouped[k].id,
                  name           |-> grouped[k].name,
                  has_log        |-> grouped[k].has_log,
                  regulations    |-> Append(grouped[k].regulations, RegulationEntry(a)),
                  by_regulation  |-> [r \in DOMAIN grouped[k].by_regulation \cup {a.regulation} |->
                                        IF r = a.regulation THEN a ELSE grouped[k].by_regulation[r]],
                  analysis_count |-> grouped[k].analysis_count + 1]]
    ELSE Append(grouped, [id             |-> a.agent_id,
                         name           |-> a.agent_name,
                         has_log        |-> a.has_log,
                         regulations    |-> << RegulationEntry(a) >>,
                         by_regulation  |-> [r \in {a.regulation} |-> a],
                         analysis_count |-> 1])

\* lines 791-811: one round of the loop over the analyses; `agents` is the
\* dict of the agents seen so far, in insertion order
AddAnalysis(grouped, a) ==
    IF \E k \in DOMAIN grouped : grouped[k].id = a.agent_id
    THEN [k \in DOMAIN grouped |->
            IF grouped[k].id # a.agent_id THEN grouped[k]
            ELSE [id             |-> grouped[k].id,
                  name           |-> grouped[k].name,
                  has_log        |-> grouped[k].has_log \/ a.has_log,
                  regulations    |-> Append(grouped[k].regulations, RegulationEntry(a)),
                  by_regulation  |-> [r \in DOMAIN grouped[k].by_regulation \cup {a.regulation} |->
                                        IF r = a.regulation THEN a ELSE grouped[k].by_regulation[r]],
                  analysis_count |-> grouped[k].analysis_count + 1]]
    ELSE Append(grouped, [id             |-> a.agent_id,
                         name           |-> a.agent_name,
                         has_log        |-> a.has_log,
                         regulations    |-> << RegulationEntry(a) >>,
                         by_regulation  |-> [r \in {a.regulation} |-> a],
                         analysis_count |-> 1])

RECURSIVE GroupLoop(_, _)
\* lines 790-811: the loop over the analyses
GroupLoop(grouped, analyses) ==
    IF analyses = <<>> THEN grouped
    ELSE GroupLoop(AddAnalysis(grouped, Head(analyses)), Tail(analyses))

\* a regulation list left in the order of the analyses
SortRegulationsSkipped(agent) == agent

\* lines 814-815: agent['regulations'].sort(key=lambda r: r['name'])
SortRegulations(agent) ==
    LET regulations == agent.regulations
    IN  [agent EXCEPT !.regulations =
            SortedBy(regulations, [k \in DOMAIN regulations |-> regulations[k].name])]

\* a sort key that keeps the case of the name
NameKeyRaw(agent) == agent.name

\* line 817: the sort key a['name'].lower()
NameKey(agent) == LowerName(agent.name)

\* group_by_agent(analyses), lines 788-817
group_by_agent(analyses) ==
    LET grouped == GroupLoop(<<>>, analyses)
        sorted == [k \in DOMAIN grouped |-> SortRegulations(grouped[k])]
    IN  SortedBy(sorted, [k \in DOMAIN sorted |-> NameKey(sorted[k])])

\* a list of the regulations in which a regulation stands once per analysis
all_regulations_with_repeats(analyses) ==
    LET names == [k \in DOMAIN analyses |-> analyses[k].regulation]
    IN  SortedBy(names, names)

\* sorted(set(a['regulation'] for a in analyses))
all_regulations(analyses) ==
    SortedSet({analyses[k].regulation : k \in DOMAIN analyses})

\* MATRIX_TEMPLATE, lines 537-551: the cell of an agent under a regulation
MatrixCell(agent, reg) ==
    IF reg \in DOMAIN agent.by_regulation
    THEN LET result == agent.by_regulation[reg]
         IN  [cell  |-> result.rating_class,
              title |-> result.rating,
              text  |-> CASE result.rating_class = "compliant" -> "check"
                          [] result.rating_class = "partial" -> "~"
                          [] result.rating_class = "non-compliant" -> "cross"
                          [] OTHER -> "?"]
    ELSE [cell |-> "missing", title |-> "", text |-> "-"]

\* matrix(), lines 859-871, and the table MATRIX_TEMPLATE renders
matrix(analyses) ==
    LET grouped     == group_by_agent(analyses)
        regulations == all_regulations(analyses)
    IN  [status      |-> 200,
         agents      |-> grouped,
         regulations |-> regulations,
         table       |-> [i \in DOMAIN grouped |->
                            [j \in DOMAIN regulations |-> MatrixCell(grouped[i], regulations[j])]]]

\* dashboard(), lines 826-833: the filter on the selected regulation
FilterRegulations(grouped, selected_regulation) ==
    IF selected_regulation = <<>> THEN grouped
    ELSE LET filtered == [k \in DOMAIN grouped |->
                            [grouped[k] EXCEPT !.regulations =
                                SelectSeq(@, LAMBDA r : r.name = selected_regulation)]]
         IN  SelectSeq(filtered, LAMBDA a : a.regulations # <<>>)

\* dashboard(), lines 820-856
dashboard(analyses, selected_regulation) ==
    LET regulations == all_regulations(analyses)
        Rated(class) == Cardinality({k \in DOMAIN analyses : analyses[k].rating_class = class})
    IN  [status              |-> 200,
         agents              |-> FilterRegulations(group_by_agent(analyses), selected_regulation),
         regulations         |-> regulations,
         selected_regulation |-> selected_regulation,
         total_analyses      |-> Len(analyses),
         total_agents        |-> Cardinality({analyses[k].agent_id : k \in DOMAIN analyses}),
         total_regulations   |-> Len(regulations),
         compliant           |-> Rated("compliant"),
         partial             |-> Rated("partial"),
         non_compliant       |-> Rated("non-compliant")]

\* lines 887-897: the analysis dict with the rendered content attached
WithContentHtml(analysis) ==
    [f \in DOMAIN analysis \cup {"content_html"} |->
        IF f = "content_html" THEN markdown_to_html(analysis.content) ELSE analysis[f]]

\* lines 885-897: the regulation agent_detail() shows for an agent: the one
\* asked for, else the first of the agent's list
ShownRegulation(agent, regulation) ==
    IF regulation # <<>> THEN regulation
    ELSE IF agent.regulations # <<>> THEN agent.regulations[1].name
    ELSE <<>>

\* lines 887-897: is there an analysis to show
HasShown(agent, regulation) ==
    /\ regulation # <<>> \/ agent.regulations # <<>>
    /\ ShownRegulation(agent, regulation) \in DOMAIN agent.by_regulation

\* the list `analyses` once agent_detail() has attached the rendered content:
\* the dict it changes is the one by_regulation holds, the last analysis of
\* that agent and regulation
AnalysesAfterDetail(analyses, agent_id, regulation) ==
    LET grouped == group_by_agent(analyses)
        hits   == {k \in DOMAIN grouped : grouped[k].id = agent_id}
    IN  IF hits = {} THEN analyses
        ELSE LET agent == grouped[Min(hits)]
                 shown == ShownRegulation(agent, regulation)
                 same  == {k \in DOMAIN analyses :
                              analyses[k].agent_id = agent_id /\ analyses[k].regulation = shown}
             IN  IF ~HasShown(agent, regulation) THEN analyses
                 ELSE [k \in DOMAIN analyses |->
                         IF k = (CHOOSE m \in same : \A j \in same : j <= m) THEN WithContentHtml(analyses[k]) ELSE analyses[k]]

NoAnalysis == [none |-> TRUE]

\* agent_detail(agent_id, regulation), lines 874-915, comments left out
agent_detail(analyses, agent_id, regulation) ==
    LET grouped == group_by_agent(analyses)
        hits   == {k \in DOMAIN grouped : grouped[k].id = agent_id}
    IN  IF hits = {} THEN [status |-> 404]
        ELSE LET at       == Min(hits)
                 shown    == ShownRegulation(grouped[at], regulation)
                 has      == HasShown(grouped[at], regulation)
                 analysis == IF has THEN WithContentHtml(grouped[at].by_regulation[shown])
                             ELSE NoAnalysis
                 agent    == IF has
                             THEN [grouped[at] EXCEPT !.by_regulation[shown] = analysis]
                             ELSE grouped[at]
             IN  [status              |-> 200,
                  agent               |-> agent,
                  analysis            |-> analysis,
                  selected_regulation |-> shown,
                  all_agents          |-> [k \in DOMAIN grouped |-> IF k = at THEN agent ELSE grouped[k]]]

(***************************************************************************)
(* Part III: the inputs and the requests                                   *)
(***************************************************************************)
MaxDocs == 3

MaxFiles == 2

\* the results whose reports the web UI groups: two agent ids under three
\* regulations; a result names its agent "a", had no log and was found
\* Compliant, or names its agent "B", had a log and was found Non-Compliant
GroupJobs ==
    [ agent_name : {<<"a">>},
      agent_id   : {<<"a">>, <<"b">>},
      log_file   : {<<>>},
      regulation : {<<"GDPR">>, <<"HIPAA">>, <<"CCPA">>},
      output     : {<<"bComp">>} ]
    \cup
    [ agent_name : {<<"B">>},
      agent_id   : {<<"a">>, <<"b">>},
      log_file   : {<< <<"w">> >>},
      regulation : {<<"GDPR">>, <<"HIPAA">>, <<"CCPA">>},
      output     : {<<"bNon">>} ]

\* the base name of the k-th artifact of RESULTS_DIR: "1", "11", "111", ...
DocStem(k) == [j \in 1..k |-> "1"]

\* RESULTS_DIR holds up to MaxDocs reports, written for any results in any
\* order
InitGroup ==
    /\ InitNoRun
    /\ InitNoSave
    /\ InitNoNames
    /\ InitNoRequest
    /\ \E n \in 1..MaxDocs :
         \E js \in [1..n -> GroupJobs] :
            docs = [k \in 1..n |-> [stem |-> DocStem(k), content |-> OutputText(js[k])]]
    /\ parsed = <<>>

\* the reports that are written, rewritten and removed between requests
FewJobs ==
    { [agent_name |-> <<"a">>, agent_id |-> <<"a">>, log_file |-> <<>>,
       regulation |-> <<"GDPR">>, output |-> <<"bComp">>],
      [agent_name |-> <<"B">>, agent_id |-> <<"b">>, log_file |-> << <<"w">> >>,
       regulation |-> <<"HIPAA">>, output |-> <<"bNon">>] }

\* RESULTS_DIR is empty and no request has been made
InitRequests ==
    /\ InitNoRun
    /\ InitNoSave
    /\ InitNoNames
    /\ InitNoRequest
    /\ docs = <<>>
    /\ parsed = <<>>

\* a report is written to RESULTS_DIR under one of MaxFiles names: a new
\* artifact, or an artifact rewritten
PutArtifact ==
    /\ pc = "idle"
    /\ \E k \in 1..MaxFiles, job \in FewJobs :
         /\ docs' = PutDoc(docs, [stem |-> DocStem(k), content |-> OutputText(job)])
         /\ docs' # docs
    /\ UNCHANGED <<parsed, jobs, written, tokens, lookup, found, response>>
    /\ UNCHANGED ovars

\* an artifact is removed from RESULTS_DIR
RemoveArtifact ==
    /\ pc = "idle"
    /\ \E k \in DOMAIN docs :
         docs' = [i \in 1..(Len(docs) - 1) |-> IF i < k THEN docs[i] ELSE docs[i + 1]]
    /\ UNCHANGED <<parsed, jobs, written, tokens, lookup, found, response>>
    /\ UNCHANGED ovars

\* the request before attached rendered content to one of its analyses, and
\* the artifacts have changed since
Since ==
    /\ response # NoResponse
    /\ response.at # docs
    /\ \E k \in DOMAIN parsed : "content_html" \in DOMAIN parsed[k]

\* GET /matrix
MatrixRequest ==
    /\ pc = "idle"
    /\ LET analyses == get_all_analyses
       IN  /\ parsed' = analyses
           /\ response' = [route |-> "matrix", at |-> docs, since |-> Since,
                           view |-> matrix(analyses)]
    /\ UNCHANGED <<docs, jobs, written, tokens, lookup, found>>
    /\ UNCHANGED ovars

\* GET / and GET /?regulation=...
DashboardRequest ==
    /\ pc = "idle"
    /\ \E selected_regulation \in {<<>>, <<"GDPR">>} :
         LET analyses == get_all_analyses
         IN  /\ parsed' = analyses
             /\ response' = [route |-> "dashboard", at |-> docs, since |-> Since,
                             regulation |-> selected_regulation,
                             view |-> dashboard(analyses, selected_regulation)]
    /\ UNCHANGED <<docs, jobs, written, tokens, lookup, found>>
    /\ UNCHANGED ovars

\* GET /agent/<agent_id> and GET /agent/<agent_id>/<regulation>
AgentDetailRequest ==
    /\ pc = "idle"
    /\ \E agent_id \in {<<"a">>, <<"b">>}, regulation \in {<<>>, <<"HIPAA">>} :
         LET analyses == get_all_analyses
         IN  /\ parsed' = AnalysesAfterDetail(analyses, agent_id, regulation)
             /\ response' = [route |-> "agent", at |-> docs, since |-> Since,
                             agent_id |-> agent_id, regulation |-> regulation,
                             view |-> agent_detail(analyses, agent_id, regulation)]
    /\ UNCHANGED <<docs, jobs, written, tokens, lookup, found>>
    /\ UNCHANGED ovars

NextGroup == MatrixRequest

\* one matrix request over the reports of RESULTS_DIR
SpecGroup == InitGroup /\ [][NextGroup]_vars

NextRequests ==
    \/ PutArtifact
    \/ RemoveArtifact
    \/ DashboardRequest
    \/ MatrixRequest
    \/ AgentDetailRequest

\* requests to the web UI while reports are written, rewritten and removed
SpecRequests == InitRequests /\ [][NextRequests]_vars

(***************************************************************************)
(* Part I: properties of the run                                           *)
(***************************************************************************)
\* main() has left the analysis loop: the save/print loop or the summary
Processing == pc \in {"save", "done"}

\* the analyzer of item i exited with status 0
Succeeded(i) == env[i].kind = "exit" /\ env[i].returncode = 0

\* the order in which the results were appended is not the submission order
OutOfOrder == \E k \in DOMAIN progress : progress[k].kind = "Done" /\ progress[k].agent # agents[progress[k].n].id

\* C1: whatever the concurrency level and the completion order, the results
\* handed to the save/print and summary steps are in ascending sequence-index
\* order, which is the submission order of the agents.
C1_ResultsInSubmissionOrder ==
    Processing =>
        /\ \A k \in DOMAIN results : results[k].idx = k
        /\ [k \in DOMAIN results |-> results[k].agent_id] = [k \in DOMAIN agents |-> agents[k].id]

\* a parallel run whose invocations completed out of submission order
C1_Witness ==
    /\ pc = "save"
    /\ parallel > 1
    /\ Len(results) >= 3
    /\ OutOfOrder

\* C2: when the results are processed, every scheduled item has been invoked
\* exactly once and has exactly one result, which carries its sequence index
\* and agent id.
C2_OneResultPerItem ==
    Processing =>
        /\ Len(results) = N
        /\ \A i \in 1..N :
             /\ invoked[i] = 1
             /\ Cardinality({k \in DOMAIN results : results[k].idx = i}) = 1
             /\ \A k \in DOMAIN results :
                  results[k].idx = i => results[k].agent_id = agents[i].id

\* a parallel run whose sequence indexes differ from the agent ids, one item
\* failed, reaches the save loop
C2_Witness ==
    /\ pc = "save"
    /\ parallel > 1
    /\ N >= 2
    /\ \E i \in 1..N : ~Succeeded(i)
    /\ \E i \in 1..N : agents[i].id # i

\* C3: with concurrency above 1, never more invocations are in flight than the
\* concurrency level.
C3_BoundedInFlight ==
    parallel > 1 => Cardinality(Running) <= parallel

\* the pool is saturated while further items wait in the queue
C3_Witness ==
    /\ parallel > 1
    /\ N > parallel
    /\ Cardinality(Running) = parallel
    /\ queue # <<>>

\* the diagnostic text of a failed launch b, as the claim words it
Diagnostic(b) ==
    CASE b.kind = "raise" -> b.text
      [] b.kind = "exit" /\ b.stderr # "" -> b.stderr
      [] OTHER -> "Unknown error"

\* C4: a failing invocation does not keep any other item from being invoked
\* and yielding its own result, and is recorded with success = false and the
\* diagnostic text as output.
C4_FailureIsolated ==
    Processing =>
        \A i \in 1..N :
            /\ invoked[i] = 1
            /\ Len(results) = N
            /\ results[i].success = Succeeded(i)
            /\ Succeeded(i) => results[i].output = env[i].stdout
            /\ ~Succeeded(i) => results[i].output = Diagnostic(env[i])

\* in either mode: a launch that raised, an exit with empty stderr and a
\* successful item in the same run
C4_Witness ==
    /\ pc = "save"
    /\ \E i, j, k \in 1..N :
         /\ i < j
         /\ env[i].kind = "raise"
         /\ Succeeded(j)
         /\ env[k].kind = "exit" /\ env[k].returncode # 0 /\ env[k].stderr = ""

\* the progress lines of a sequential run of items 1..n, all complete
RECURSIVE SeqLines(_)
SeqLines(n) ==
    IF n = 0 THEN <<>>
    ELSE SeqLines(n - 1) \o << [kind |-> "Analyzing", n |-> n, agent |-> agents[n].id],
                               [kind |-> "elapsed",   n |-> n, agent |-> agents[n].id] >>

\* C5: with concurrency 1, item i+1 is invoked only after item i has returned
\* and its result is recorded, and the progress lines appear in submission
\* order, one completed line per item.
C5_SequentialOrder ==
    (parallel = 1 /\ N > 0) =>
        /\ \A i \in 1..N : fut[i] # "new" =>
              \A j \in 1..(i - 1) : fut[j] = "collected" /\ j <= Len(results) /\ results[j].idx = j
        /\ Cardinality(Running) <= 1
        /\ LET done == Len(results)
           IN  progress = SeqLines(done)
                            \o (IF done < N /\ fut[done + 1] = "running"
                                THEN << [kind |-> "Analyzing", n |-> done + 1, agent |-> agents[done + 1].id] >>
                                ELSE <<>>)

\* the third item of a sequential run is being analysed
C5_Witness ==
    /\ parallel = 1
    /\ pc = "sequential"
    /\ N >= 3
    /\ fut[3] = "running"

\* main() is in the analysis loop: at least one agent is scheduled
Analysing == pc \in {"sequential", "submit", "collect"}

\* the summary of a run that ended normally, as the claim words it
SummaryGiven ==
    /\ pc = "done"
    /\ exitStatus = 0
    /\ summary.printed
    /\ summary.total = N
    /\ summary.successful = Cardinality({i \in 1..N : Succeeded(i)})
    /\ \A i \in 1..N : summary.status[i] = (IF Succeeded(i) THEN "ok" ELSE "FAILED")
    /\ warnings = {i \in 1..N : ~Succeeded(i)}

\* C6: a run with at least one scheduled agent whose invocations all return
\* reaches the summary whatever items failed; the summary counts the results
\* and the successful ones, gives each item's ok/FAILED status, and the run
\* ends with exit status 0, failures being warnings only.
C6_SummaryAlwaysReached == Analysing ~> SummaryGiven

\* a run in which every item failed has ended with the summary
C6_Witness ==
    /\ SummaryGiven
    /\ N >= 2
    /\ summary.successful = 0

\* no agent can be discovered or scheduled
ZeroAgents ==
    \/ agentFiles = {}
    \/ agentFiles \subseteq badFiles
    \/ args.agents # NoFilter /\ \A f \in agentFiles \ badFiles : f \notin args.agents

\* C7: when no agent can be discovered or scheduled, an analysis run exits
\* with a non-zero status, launches no analyzer, writes no report file and
\* does not create the output directory.
C7_NoAgentsIsFatal ==
    (ZeroAgents /\ ~args.list_agents) =>
        /\ ~outputDirExists
        /\ files = << >>
        /\ \A i \in DOMAIN invoked : invoked[i] = 0
        /\ pc # "done"
        /\ pc = "exited" => exitStatus # 0

(***************************************************************************)
(* Part II: properties of the classification                               *)
(***************************************************************************)
\* C8: two reports with the same text after the header separator receive the
\* same verdict and short code, whatever their header lines and file names.
C8_VerdictOfBodyOnly ==
    \A i, j \in DOMAIN parsed :
        parsed[i].content = parsed[j].content =>
            /\ parsed[i].rating = parsed[j].rating
            /\ parsed[i].rating_short = parsed[j].rating_short

\* the lower-case text of artifact k, emphasised phrases spelt out
TextOf(k) == Spell(Lower(docs[k].content))

\* the places of t where ** phrase ** stands
Occ(t, phrase) ==
    {i \in DOMAIN t : At(t, i) = "**" /\ At(t, i + 1) = phrase /\ At(t, i + 2) = "**"}

\* the places of t where an emphasised "rating:" label starts
Labelled(t) == {i \in DOMAIN t : At(t, i) = "**" /\ At(t, i + 1) = "rating"}

\* t has no rating declaration, "**Partially Compliant**" and
\* "**Non-Compliant**" once each and no other emphasised verdict phrase
TiePair(t) ==
    /\ SearchDeclaration(t) = ""
    /\ Cardinality(Occ(t, "part")) = 1
    /\ Cardinality(Occ(t, "non")) = 1
    /\ Occ(t, "comp") = {}
    /\ Labelled(t) = {}

\* C9: a text without rating declaration that holds "**Partially Compliant**"
\* and "**Non-Compliant**" once each, and no other emphasised verdict phrase,
\* is rated Partially Compliant / PC whichever of the two comes first.
C9_TieFavoursPartial ==
    \A k \in DOMAIN parsed :
        TiePair(TextOf(k)) =>
            parsed[k].rating = "Partially Compliant" /\ parsed[k].rating_short = "PC"

\* C9 as amended: such a text is rated by whichever of the two phrases comes
\* first in it: Partially Compliant / PC when "**Partially Compliant**" is
\* first, Non-Compliant / NC when "**Non-Compliant**" is first.
C9_FirstEmphasisedWins ==
    \A k \in DOMAIN parsed :
        LET t == TextOf(k)
        IN  TiePair(t) =>
                IF Min(Occ(t, "part")) < Min(Occ(t, "non"))
                THEN parsed[k].rating = "Partially Compliant" /\ parsed[k].rating_short = "PC"
                ELSE parsed[k].rating = "Non-Compliant" /\ parsed[k].rating_short = "NC"

\* a parsed text of the two phrases with "**Non-Compliant**" first
C9_Witness ==
    /\ parsed # <<>>
    /\ TiePair(TextOf(1))
    /\ Min(Occ(TextOf(1), "non")) < Min(Occ(TextOf(1), "part"))

\* the short code of the verdict a phrase names
CodeNamed(phrase) ==
    CASE phrase = "non" -> "NC" [] phrase = "part" -> "PC" [] phrase = "comp" -> "C"

\* between the declaration at i and the phrase at j stand only lexemes of S
GapOnly(t, i, j, S) == \A k \in (i + 1)..(j - 1) : t[k] \in S

\* between the declaration at i and the phrase at j stand colons and
\* whitespace, then markup, then whitespace, in that order
GapOrdered(t, i, j) ==
    \E a, m \in i..(j - 1) :
        /\ a <= m
        /\ \A k \in (i + 1)..a : t[k] \in {":"} \cup Ws
        /\ \A k \in (a + 1)..m : t[k] \in Markup
        /\ \A k \in (m + 1)..(j - 1) : t[k] \in Ws

\* C10: when a rating declaration is followed, with only whitespace, line
\* breaks and #/* markup in between, by a verdict phrase, the rating is the one
\* that phrase names, whatever emphasised phrases stand elsewhere.
C10_DeclaredVerdictWins ==
    \A k \in DOMAIN parsed :
        LET t == TextOf(k)
        IN  \A i, j \in DOMAIN t :
                (i < j /\ t[i] = "cr" /\ t[j] \in Phrases /\ GapOnly(t, i, j, Ws \cup Markup)) =>
                    parsed[k].rating_short = CodeNamed(t[j])

\* the declarations of t: a "compliance rating" at i and the phrase at j that
\* follows it after an ordered gap
Declarations(t) ==
    {d \in (DOMAIN t) \X (DOMAIN t) :
        d[1] < d[2] /\ t[d[1]] = "cr" /\ t[d[2]] \in Phrases /\ GapOrdered(t, d[1], d[2])}

\* C10 as amended: when the gap holds colons and whitespace, then markup, then
\* whitespace, in that order, the rating is the one named by the phrase of the
\* first such declaration, whatever emphasised phrases stand elsewhere.
C10_OrderedDeclarationWins ==
    \A k \in DOMAIN parsed :
        LET t == TextOf(k)
        IN  \A d \in Declarations(t) :
                (\A e \in Declarations(t) : d[1] <= e[1]) =>
                    parsed[k].rating_short = CodeNamed(t[d[2]])

\* a parsed text whose declaration, with colon, markup and whitespace in the
\* gap, names another verdict than the emphasised phrase before it
C10_Witness ==
    /\ parsed # <<>>
    /\ LET t == TextOf(1)
       IN  \E d \in Declarations(t) :
              /\ t[d[2]] = "non"
              /\ d[2] - d[1] > 3
              /\ \E i \in Occ(t, "comp") : i < d[1]
              /\ parsed[1].rating_short = "NC"

\* the places of t where an emphasised "rating:" label with a verdict phrase
\* stands
LabelledPhrases(t) ==
    {i \in DOMAIN t :
        /\ At(t, i) = "**" /\ At(t, i + 1) = "rating" /\ At(t, i + 2) = ":"
        /\ \E j \in DOMAIN t :
              /\ j > i + 2
              /\ GapOnly(t, i + 2, j, Ws)
              /\ t[j] \in Phrases
              /\ At(t, j + 1) = "**"}

\* t has no verdict phrase any tier recognises: no declaration with its
\* phrase, no emphasised phrase, labelled or not
NoVerdictPhrase(t) ==
    /\ Declarations(t) = {}
    /\ \A p \in Phrases : Occ(t, p) = {}
    /\ LabelledPhrases(t) = {}

\* the four consistent pairs of verdict and short code
VerdictPairs ==
    {<<"Compliant", "C">>, <<"Partially Compliant", "PC">>,
     <<"Non-Compliant", "NC">>, <<"Unknown", "?">>}

\* C11: every text is classified, with exactly one of the four consistent
\* pairs of verdict and short code, and a text without a verdict phrase that
\* any tier recognises is rated Unknown / ?.
C11_TotalClassification ==
    parsed # <<>> =>
        /\ DOMAIN parsed = DOMAIN docs
        /\ \A k \in DOMAIN parsed :
              /\ <<parsed[k].rating, parsed[k].rating_short>> \in VerdictPairs
              /\ NoVerdictPhrase(TextOf(k)) =>
                    parsed[k].rating = "Unknown" /\ parsed[k].rating_short = "?"

\* a parsed text that names a verdict in plain words only, rated Unknown
C11_Witness ==
    /\ parsed # <<>>
    /\ NoVerdictPhrase(TextOf(1))
    /\ \E i \in DOMAIN TextOf(1) : TextOf(1)[i] \in Phrases
    /\ parsed[1].rating_short = "?"

\* the has_log and the body of artifact k are those of its header block
LogAndBodyKept(k) ==
    /\ parsed[k].has_log = (docs[k].from.log_name # <<"None">>)
    /\ parsed[k].content = Strip(docs[k].from.output)

\* C12: of a text with the four header lines and a separator line, the parse
\* returns the exact suffixes of the Agent, ID and Regulation lines, has_log
\* true exactly when the Log file value is not None, and as body the trimmed
\* text after the first separator line; header-like lines after the
\* separator change nothing.
C12_HeaderFieldsExact ==
    \A k \in DOMAIN parsed :
        /\ parsed[k].agent_name = docs[k].from.agent_name
        /\ parsed[k].agent_id = docs[k].from.agent_id
        /\ parsed[k].regulation = docs[k].from.regulation
        /\ LogAndBodyKept(k)

\* C12 as amended: the Agent, ID and Regulation fields are the exact suffixes
\* of their lines when those suffixes are not empty; an empty Agent suffix
\* gives the agent id as name, and an empty ID or Regulation suffix counts as
\* missing and is never the value returned when the file name gives one.
C12_NonEmptyHeaderFieldsExact ==
    \A k \in DOMAIN parsed :
        LET from == docs[k].from
        IN  /\ from.agent_name # <<>> => parsed[k].agent_name = from.agent_name
            /\ from.agent_name = <<>> => parsed[k].agent_name = parsed[k].agent_id
            /\ from.agent_id # <<>> => parsed[k].agent_id = from.agent_id
            /\ from.regulation # <<>> => parsed[k].regulation = from.regulation
            /\ from.agent_id = <<>> => parsed[k].agent_id # <<>>
            /\ LogAndBodyKept(k)

\* a parsed text with four non-empty header values whose body starts with a
\* header line of its own
C12_Witness ==
    /\ parsed # <<>>
    /\ LET from == docs[1].from
       IN  /\ from.agent_name # <<>> /\ from.agent_id # <<>> /\ from.regulation # <<>>
           /\ from.log_name = <<"w">>
           /\ from.output = <<"Agent:", "sp">>
           /\ parsed[1].agent_name = from.agent_name
           /\ parsed[1].has_log

\* the text of artifact k has no header line
HeaderLess(k) ==
    \A i \in DOMAIN docs[k].content :
        docs[k].content[i] \notin {"Agent:", "ID:", "Log:", "Reg:"}

\* r is a regulation token in upper case
UpperToken(r) ==
    /\ r # <<>>
    /\ \A i \in DOMAIN r : r[i] \in UpperWords \cup {"1", "-"}
    /\ \E i \in DOMAIN r : r[i] \in UpperWords

\* stem is x _ r _analysis, the underscore before r standing at k
ShapedAt(stem, k) ==
    LET n == Len(stem)
    IN  /\ n >= 2 /\ stem[n - 1] = "_" /\ stem[n] = "analysis"
        /\ k \in 1..(n - 2)
        /\ stem[k] = "_"

\* C13: a text without header stored as X_R_analysis, R a regulation token in
\* upper case and X a non-empty agent id that may hold underscores, parses to
\* agent id X and regulation R.
C13_RecoveredFromFileName ==
    \A k \in DOMAIN parsed :
        LET stem == docs[k].stem
        IN  \A u \in DOMAIN stem :
                LET X == SubSeq(stem, 1, u - 1)
                    R == SubSeq(stem, u + 1, Len(stem) - 2)
                IN  (HeaderLess(k) /\ ShapedAt(stem, u) /\ X # <<>> /\ UpperToken(R)) =>
                        parsed[k].agent_id = X /\ parsed[k].regulation = R

\* a parsed text without header whose agent id, recovered from the file
\* name, holds an underscore
C13_Witness ==
    /\ parsed # <<>>
    /\ HeaderLess(1)
    /\ docs[1].stem = <<"a", "_", "1", "_", "GDPR", "_", "analysis">>
    /\ parsed[1].agent_id = <<"a", "_", "1">>
    /\ parsed[1].regulation = <<"GDPR">>

\* C14: a text without header stored as X_ePrivacy_Directive_analysis parses to
\* the regulation ePrivacy-Directive and the agent id X.
C14_AllowListedRegulation ==
    \A k \in DOMAIN parsed :
        LET stem == docs[k].stem
            tail == <<"_", "ePrivacy", "_", "Directive", "_", "analysis">>
            X    == SubSeq(stem, 1, Len(stem) - 6)
        IN  (HeaderLess(k) /\ Len(stem) > 6 /\ stem = X \o tail) =>
                /\ parsed[k].regulation = <<"ePrivacy", "-", "Directive">>
                /\ parsed[k].agent_id = X

\* stem ends with a regulation: a token in upper case or the two-word one
EndsWithRegulation(stem) ==
    \/ \E u \in DOMAIN stem :
          ShapedAt(stem, u) /\ UpperToken(SubSeq(stem, u + 1, Len(stem) - 2))
    \/ /\ Len(stem) >= 6
       /\ SubSeq(stem, Len(stem) - 5, Len(stem))
            = <<"_", "ePrivacy", "_", "Directive", "_", "analysis">>

\* C15: every text under every name parses to a record; when the text has no
\* header line and the name does not end with a regulation and _analysis, the
\* agent id is the whole base name, the regulation is empty and the agent name
\* is the agent id.
C15_FallbackToBaseName ==
    parsed # <<>> =>
        /\ DOMAIN parsed = DOMAIN docs
        /\ \A k \in DOMAIN parsed :
              (HeaderLess(k) /\ ~EndsWithRegulation(docs[k].stem)) =>
                  /\ parsed[k].agent_id = docs[k].stem
                  /\ parsed[k].regulation = <<>>
                  /\ parsed[k].agent_name = parsed[k].agent_id

\* a parsed text without header whose name ends with _analysis after a
\* number: nothing is recovered
C15_Witness ==
    /\ parsed # <<>>
    /\ HeaderLess(1)
    /\ docs[1].stem = <<"a", "_", "1", "_", "analysis">>
    /\ parsed[1].agent_id = docs[1].stem
    /\ parsed[1].regulation = <<>>

(***************************************************************************)
(* Properties of the report files, of the validation and of the names      *)
(***************************************************************************)
\* the regulation, has_log and body of artifact k are those of the result it
\* was written from
RunFieldsKept(k) ==
    LET from == docs[k].from
    IN  /\ from.regulation # <<>> => parsed[k].regulation = from.regulation
        /\ parsed[k].has_log = (from.log_file # <<>>)
        /\ parsed[k].content = Strip(from.output)

\* C16: a report file written with --output-dir parses back to the agent
\* name, the agent id, the regulation of the run, the had_log and the trimmed
\* output it was written from, whatever lines the output holds.
C16_ReportRoundTrip ==
    \A k \in DOMAIN parsed :
        /\ parsed[k].agent_name = docs[k].from.agent_name
        /\ parsed[k].agent_id = docs[k].from.agent_id
        /\ RunFieldsKept(k)

\* C16 as amended: the agent name parses back when it is not empty and the
\* agent id parses back when it is not empty; the regulation, the had_log and
\* the trimmed output parse back always.
C16_NonEmptyRoundTrip ==
    \A k \in DOMAIN parsed :
        /\ docs[k].from.agent_name # <<>> => parsed[k].agent_name = docs[k].from.agent_name
        /\ docs[k].from.agent_id # <<>> => parsed[k].agent_id = docs[k].from.agent_id
        /\ RunFieldsKept(k)

\* a report of a named agent with the log None.csv whose output starts with
\* a Regulation line, read back
C16_Witness ==
    /\ parsed # <<>>
    /\ LET from == docs[1].from
       IN  /\ from.agent_name # <<>> /\ from.agent_id = <<"a", "sp", "b">>
           /\ from.log_file = << <<"None">> >>
           /\ from.regulation = <<"GDPR">>
           /\ from.output = <<"Reg:", "sp">>
           /\ parsed[1].agent_id = from.agent_id
           /\ parsed[1].regulation = <<"GDPR">>
           /\ parsed[1].has_log

\* C17: reports of distinct pairs of agent and regulation go to distinct
\* files, in one run or in successive runs into one directory: the directory
\* still holds the report of every pair written so far.
C17_OneFilePerAgentAndRegulation ==
    \A i \in 1..written :
        \E k \in DOMAIN docs :
            /\ docs[k].from.agent_id = jobs[i].agent_id
            /\ docs[k].from.regulation = jobs[i].regulation

\* main() is past the validation and was not turned away by it
Admitted == pc # "validate" /\ exitStatus # 2

\* C18: the validation admits a run only with exactly one of --regulation and
\* --custom-policy, so that no analyzer is launched with both.
C18_ExactlyOnePolicy ==
    /\ (Admitted /\ ~args.list_agents) => Cardinality(PolicyOptions(args)) = 1
    /\ \A i \in DOMAIN invoked :
          invoked[i] > 0 => PolicyOptions(args) # {"--regulation", "--custom-policy"}

\* C18 as amended: the validation admits a run that analyses whenever at
\* least one of --regulation and --custom-policy is given, also with both, and
\* rejects it with neither; every analyzer launched gets at least one of them.
C18_AtLeastOnePolicy ==
    /\ (pc # "validate" /\ ~args.list_agents) =>
          (Admitted <=> PolicyOptions(args) # {})
    /\ \A i \in DOMAIN invoked : invoked[i] > 0 => PolicyOptions(args) # {}

\* an analyzer launched in a run given both a regulation and a custom policy
C18_Witness ==
    /\ PolicyOptions(args) = {"--regulation", "--custom-policy"}
    /\ \E i \in DOMAIN invoked : invoked[i] > 0

\* the rule of the claim: the sanitized names are equal without regard to
\* case, or are so once their underscores are removed
SanitizedEqual(b, name) ==
    LET sb == LowerName(sanitize_for_filename(b))
        sn == LowerName(sanitize_for_filename(name))
    IN  sb = sn \/ WithoutUnderscores(sb) = WithoutUnderscores(sn)

\* C19: the search returns a log whenever some file's base name, sanitized,
\* equals the sanitized agent name without regard to case, or does so after
\* the underscores of both are removed; it returns none only when no file
\* does.
C19_MatchesSanitizedCandidates ==
    found.searched =>
        LET fit == {i \in DOMAIN lookup.logs : SanitizedEqual(lookup.logs[i], lookup.agent_name)}
        IN  IF fit = {} THEN found.log_file = <<>>
            ELSE \E i \in fit : found.log_file = <<lookup.logs[i]>>

\* C20: sanitize_for_filename() applied to its own result changes nothing,
\* and My Agent--v2 becomes My_Agent_v2.
C20_SanitizeIdempotent ==
    /\ Len(tokens) = 3 => tokens[3] = tokens[2]
    /\ (Len(tokens) >= 2 /\ tokens[1] = <<"My", "sp", "Agent", "-", "-", "v2">>) =>
          tokens[2] = <<"My", "_", "Agent", "_", "v2">>

\* a name with a dropped character between two separators, sanitized twice
C20_Witness ==
    /\ Len(tokens) = 3
    /\ tokens[1] = <<"-", "a", "-", "!", "sp">>
    /\ tokens[2] = <<"a">>

(***************************************************************************)
(* Properties of the log association, of the worker pool and of the save   *)
(* loop                                                                    *)
(***************************************************************************)
\* the agents that have a matching log
Logged == {i \in 1..N : agents[i].log_file # NoLog}

\* C21: the log association is advisory.  Every loadable agent is scheduled
\* and invoked once whether or not a log matches it, the run ends with
\* status 0, and the had_log flag of each result is true exactly when the
\* matcher returned a log for its agent, whatever the outcome of the
\* invocation; the summary counts exactly the agents that have a log.
C21_LogIsAdvisory ==
    Processing =>
        /\ Len(results) = N
        /\ \A k \in 1..N :
             /\ invoked[k] = 1
             /\ agents[k].log_file = (IF agents[k].name \in logNames THEN agents[k].name ELSE NoLog)
             /\ results[k].had_log = (agents[k].log_file # NoLog)
             /\ results[k].log_file = agents[k].log_file
        /\ WithLogs(results) = Cardinality(Logged)
        /\ pc = "done" => exitStatus = 0 /\ summary.with_logs = Cardinality(Logged)

\* three agents of which two have a log, run with concurrency 2: three
\* results, two of them with had_log; one agent with a log failed and the
\* agent without a log succeeded
C21_Witness ==
    /\ pc = "done"
    /\ parallel = 2
    /\ N = 3
    /\ Len(results) = 3
    /\ Cardinality(Logged) = 2
    /\ WithLogs(results) = 2
    /\ \E k \in 1..N : results[k].had_log /\ ~results[k].success
    /\ \E k \in 1..N : ~results[k].had_log /\ results[k].success /\ invoked[k] = 1

\* the "Done" lines printed so far
Dones == SelectSeq(progress, LAMBDA l : l.kind = "Done")

\* the items a worker has taken, and those whose future main() has collected
Taken == {i \in DOMAIN fut : fut[i] \in {"running", "done", "collected"}}

Gathered == {i \in DOMAIN fut : fut[i] = "collected"}

\* C27: in parallel mode every item is taken by one worker only, and the
\* result list, the completion counter and the progress lines change only
\* when main() collects a finished future: at every moment the counter and
\* the length of the result list equal the number of collected futures, the
\* results are the unaltered return values of exactly the collected items,
\* none lost and none twice, and the "Done" lines count 1, 2, ... up to the
\* counter without gap or repeat.
C27_CoordinatorOwnsResults ==
    (parallel > 1 /\ pc \in {"submit", "collect", "save", "done"}) =>
        /\ \A i \in DOMAIN fut : invoked[i] = (IF i \in Taken THEN 1 ELSE 0)
        /\ \A i \in DOMAIN fut :
             Cardinality({k \in DOMAIN queue : queue[k] = i}) = (IF fut[i] = "queued" THEN 1 ELSE 0)
        /\ completed = Cardinality(Gathered)
        /\ Len(results) = completed
        /\ {results[k].idx : k \in DOMAIN results} = Gathered
        /\ \A k \in DOMAIN results : results[k] = ret[results[k].idx]
        /\ \A i \in DOMAIN fut :
             fut[i] \in {"done", "collected"} =>
                 ret[i].idx = i /\ ret[i].agent_id = agents[i].id
        /\ Len(Dones) = completed
        /\ \A k \in DOMAIN Dones : Dones[k].n = k
        /\ pc \in {"save", "done"} => completed = N

\* a run with concurrency 2 in which the third item was collected first and
\* the second item next, while the first is still with its worker
C27_Witness ==
    /\ parallel = 2
    /\ N = 3
    /\ pc = "collect"
    /\ fut = <<"running", "collected", "collected">>
    /\ completed = 2
    /\ [k \in DOMAIN results |-> results[k].idx] = <<3, 2>>
    /\ Len(Dones) = 2

Counts(t) == <<FindAll(t, "non", 1), FindAll(t, "comp", 1), FindAll(t, "part", 1)>>

\* t holds an emphasised verdict phrase
Emphasised(t) == \E phrase \in Phrases : Occ(t, phrase) # {}

\* C28: the counting fallback never yields a verdict.  A text in which
\* neither search matches has all three counts 0 and is rated Unknown; a
\* text that holds an emphasised verdict phrase is matched by one of the two
\* searches and rated by the phrase that search found, the declared one or
\* else the first emphasised one, whatever the counts say.
C28_CountsNeverDecide ==
    \A k \in DOMAIN parsed :
        LET t == TextOf(k)
            declared   == SearchDeclaration(t)
            emphasised == SearchEmphasis(t)
        IN  /\ (declared = "" /\ emphasised = "") =>
                   /\ Counts(t) = <<0, 0, 0>>
                   /\ RatingByCount(t) = Unknown
                   /\ parsed[k].rating = "Unknown" /\ parsed[k].rating_short = "?"
            /\ Emphasised(t) =>
                   /\ emphasised # ""
                   /\ parsed[k].rating_short = CodeNamed(IF declared # "" THEN declared ELSE emphasised)

\* a parsed text without declaration whose first emphasised phrase is
\* "**Compliant**" although the counts favour Partially Compliant
C28_Witness ==
    /\ parsed # <<>>
    /\ SearchDeclaration(TextOf(1)) = ""
    /\ Occ(TextOf(1), "comp") # {} /\ Occ(TextOf(1), "part") # {}
    /\ Min(Occ(TextOf(1), "comp")) < Min(Occ(TextOf(1), "part"))
    /\ RatingByCount(TextOf(1)) = PartiallyCompliant
    /\ parsed[1].rating_short = "C"

(***************************************************************************)
(* Properties of the views of the web UI                                   *)
(***************************************************************************)
\* the classified reports of the last pass, of which the response was made
Reports == parsed

\* the reports of the agent of id `id`, and those of them under regulation reg
ReportsOf(id) == {k \in DOMAIN Reports : Reports[k].agent_id = id}

ReportsUnder(id, reg) == {k \in ReportsOf(id) : Reports[k].regulation = reg}

\* the agent ids and the regulations found in the reports
AgentIds == {Reports[k].agent_id : k \in DOMAIN Reports}

RegulationNames == {Reports[k].regulation : k \in DOMAIN Reports}

\* the response is a matrix, or a list of all agents
Grouped == response.route = "matrix"

\* C22: the matrix has one row per distinct agent id and one column per
\* distinct regulation of the classified reports, the columns in ascending
\* order without repeats; the cell of an agent under a regulation is the
\* "-" of a missing analysis exactly when the agent has no report under that
\* regulation, and shows the verdict of a report of that agent under that
\* regulation otherwise.
C22_MatrixComplete ==
    Grouped =>
        LET view == response.view
        IN  /\ Len(view.agents) = Cardinality(AgentIds)
            /\ {view.agents[i].id : i \in DOMAIN view.agents} = AgentIds
            /\ Len(view.regulations) = Cardinality(RegulationNames)
            /\ {view.regulations[j] : j \in DOMAIN view.regulations} = RegulationNames
            /\ \A i, j \in DOMAIN view.regulations :
                   i < j => Before(view.regulations[i], view.regulations[j])
            /\ DOMAIN view.table = DOMAIN view.agents
            /\ \A i \in DOMAIN view.agents :
                 /\ DOMAIN view.table[i] = DOMAIN view.regulations
                 /\ \A j \in DOMAIN view.regulations :
                      LET cell == view.table[i][j]
                          same == ReportsUnder(view.agents[i].id, view.regulations[j])
                      IN  /\ (cell.text = "-") = (same = {})
                          /\ (cell.cell = "missing") = (same = {})
                          /\ same # {} =>
                                \E k \in same :
                                    /\ cell.title = Reports[k].rating
                                    /\ cell.cell = Reports[k].rating_class

\* the matrix of three reports: an agent with reports under GDPR and HIPAA,
\* rated differently, and another agent with a report under CCPA; the first
\* agent's row has the "-" under CCPA only
C22_Witness ==
    /\ Grouped
    /\ response.view.regulations = << <<"CCPA">>, <<"GDPR">>, <<"HIPAA">> >>
    /\ \E i \in DOMAIN response.view.agents :
         /\ DOMAIN response.view.agents[i].by_regulation = { <<"GDPR">>, <<"HIPAA">> }
         /\ response.view.table[i][1].text = "-"
         /\ response.view.table[i][2].text = "check"
         /\ response.view.table[i][3].text = "cross"

\* the agent views of the response
Views == response.view.agents

\* C23: group_by_agent returns one view per distinct agent id of the
\* reports, each under a name one of its reports gives it, and the views
\* stand in non-decreasing order of their names compared without regard to
\* case, in whatever order the reports came.
C23_OneViewPerAgentByName ==
    Grouped =>
        /\ Len(Views) = Cardinality(AgentIds)
        /\ {Views[i].id : i \in DOMAIN Views} = AgentIds
        /\ \A i, j \in DOMAIN Views : i # j => Views[i].id # Views[j].id
        /\ \A i \in DOMAIN Views :
             \E k \in ReportsOf(Views[i].id) : Views[i].name = Reports[k].agent_name
        /\ \A i, j \in DOMAIN Views :
             i < j => ~Before(LowerName(Views[j].name), LowerName(Views[i].name))

\* the reports came with the agent named "B" first and the agent named "a"
\* second; the views stand in the order "a", "B"
C23_Witness ==
    /\ Grouped
    /\ Len(Reports) >= 2
    /\ Reports[1].agent_name = <<"B">> /\ Reports[1].agent_id = <<"a">>
    /\ Reports[2].agent_name = <<"a">> /\ Reports[2].agent_id = <<"b">>
    /\ Len(Views) = 2
    /\ Views[1].id = <<"b">> /\ Views[1].name = <<"a">>
    /\ Views[2].id = <<"a">> /\ Views[2].name = <<"B">>

\* C24: the has_log of an agent view is true exactly when one of the
\* reports of that agent has has_log, wherever in the order of the reports
\* it stands.
C24_HasLogIsAny ==
    Grouped =>
        \A i \in DOMAIN Views :
            Views[i].has_log = (\E k \in ReportsOf(Views[i].id) : Reports[k].has_log)

\* an agent whose first report had no log and whose last report had one,
\* a report of another agent standing between the two
C24_Witness ==
    /\ Grouped
    /\ Len(Reports) = 3
    /\ ReportsOf(Reports[1].agent_id) = {1, 3}
    /\ ~Reports[1].has_log /\ ~Reports[2].has_log /\ Reports[3].has_log
    /\ \E i \in DOMAIN Views : Views[i].id = Reports[1].agent_id /\ Views[i].has_log
    /\ \E i \in DOMAIN Views : Views[i].id = Reports[2].agent_id /\ ~Views[i].has_log

\* C25: the regulation list of an agent view stands in ascending order of
\* the regulation names and holds one entry per report of the agent, an
\* entry under a regulation for each report under it, with the verdict of
\* such a report; the mapping by_regulation has a key for every regulation
\* of the list, and no other key.
C25_RegulationsSortedAndMapped ==
    Grouped =>
        \A i \in DOMAIN Views :
            LET regs == Views[i].regulations
                id   == Views[i].id
            IN  /\ \A a, b \in DOMAIN regs : a < b => ~Before(regs[b].name, regs[a].name)
                /\ Len(regs) = Cardinality(ReportsOf(id))
                /\ \A reg \in RegulationNames :
                     Cardinality({a \in DOMAIN regs : regs[a].name = reg})
                        = Cardinality(ReportsUnder(id, reg))
                /\ \A a \in DOMAIN regs :
                     /\ \E k \in ReportsUnder(id, regs[a].name) :
                            /\ regs[a].rating = Reports[k].rating
                            /\ regs[a].rating_short = Reports[k].rating_short
                     /\ regs[a].name \in DOMAIN Views[i].by_regulation
                /\ DOMAIN Views[i].by_regulation = {regs[a].name : a \in DOMAIN regs}
                /\ \A reg \in DOMAIN Views[i].by_regulation :
                     \E k \in ReportsUnder(id, reg) : Views[i].by_regulation[reg] = Reports[k]

\* one agent whose reports came under HIPAA, GDPR and CCPA, in that order
C25_Witness ==
    /\ Grouped
    /\ Len(Reports) = 3
    /\ [k \in 1..3 |-> Reports[k].regulation] = << <<"HIPAA">>, <<"GDPR">>, <<"CCPA">> >>
    /\ Len(Views) = 1
    /\ [a \in 1..3 |-> Views[1].regulations[a].name] = << <<"CCPA">>, <<"GDPR">>, <<"HIPAA">> >>
    /\ Views[1].regulations[1].rating # Views[1].regulations[2].rating

\* C29: in every agent view the verdict of each entry of the regulation list
\* is the verdict of the report the mapping by_regulation holds under that
\* regulation, no regulation stands twice in the list, and analysis_count is
\* the number of keys of the mapping, also when several reports have the same
\* agent id and regulation.
C29_ListAgreesWithMapping ==
    Grouped =>
        \A i \in DOMAIN Views :
            LET regs == Views[i].regulations
                by   == Views[i].by_regulation
            IN  /\ \A a \in DOMAIN regs :
                     /\ regs[a].name \in DOMAIN by
                     /\ regs[a].rating = by[regs[a].name].rating
                     /\ regs[a].rating_short = by[regs[a].name].rating_short
                /\ \A a, b \in DOMAIN regs : a # b => regs[a].name # regs[b].name
                /\ Views[i].analysis_count = Cardinality(DOMAIN by)

\* the classification of the artifacts ds, each parsed anew
ClassificationOf(ds) == [i \in DOMAIN ds |-> parse_analysis_file(ds[i])]

\* what the handler of the last request makes of the artifacts that were
\* on disk when the request was made, and of nothing else
ViewBuiltAnew ==
    LET reports == ClassificationOf(response.at)
    IN  CASE response.route = "matrix" -> matrix(reports)
          [] response.route = "dashboard" -> dashboard(reports, response.regulation)
          [] response.route = "agent" -> agent_detail(reports, response.agent_id, response.regulation)

\* the agent views a response lists
Listed ==
    CASE response.route = "agent" /\ response.view.status = 200 -> response.view.all_agents
      [] response.route = "agent" -> <<>>
      [] OTHER -> response.view.agents

\* C26: whatever artifacts were written, rewritten and removed and whatever
\* requests were answered before, the view of a request is the one built
\* from the classification of exactly the artifacts on disk at the time of
\* the request: it lists the agents of these artifacts and of no other, only
\* the analysis an agent-detail request shows carries rendered content, and
\* the regulation list of an agent is cut down only by the filter of the
\* request itself.
C26_ViewsBuiltAnew ==
    response # NoResponse =>
        LET reports == ClassificationOf(response.at)
        IN  /\ response.view = ViewBuiltAnew
            /\ response.route = "agent" =>
                  (response.view.status = 404) =
                      (\A k \in DOMAIN reports : reports[k].agent_id # response.agent_id)
            /\ (response.route # "dashboard" \/ response.regulation = <<>>) =>
                  /\ {Listed[i].id : i \in DOMAIN Listed} =
                        (IF response.route = "agent" /\ response.view.status = 404 THEN {}
                         ELSE {reports[k].agent_id : k \in DOMAIN reports})
                  /\ \A i \in DOMAIN Listed :
                        Len(Listed[i].regulations) =
                            Cardinality({k \in DOMAIN reports : reports[k].agent_id = Listed[i].id})
            /\ \A i \in DOMAIN Listed :
                 \A reg \in DOMAIN Listed[i].by_regulation :
                    ("content_html" \in DOMAIN Listed[i].by_regulation[reg]) =
                        /\ response.route = "agent"
                        /\ response.agent_id = Listed[i].id
                        /\ response.view.selected_regulation = reg

\* a matrix request made after the artifacts had changed since the request
\* before, which had attached rendered content to an analysis: the matrix
\* shows the two agents now on disk and no rendered content
C26_Witness ==
    /\ response # NoResponse
    /\ response.route = "matrix"
    /\ response.since
    /\ Len(response.at) = 2
    /\ Len(response.view.agents) = 2
    /\ response.at = docs

====
